---- MODULE Spec2Model ----
(***************************************************************************)
(* Ad-Wise agent: the request-to-prompt pipeline run_agent of app/agent.py *)
(* and the pure functions it is built from.                                *)
(*                                                                         *)
(* Text is a sequence of one-character strings, so that trimming, case     *)
(* folding, substring search and the format regexes are computed as the    *)
(* code computes them.  Python's None is the value None below.             *)
(***************************************************************************)
EXTENDS Integers, Sequences, FiniteSets, TLC

(***************************************************************************)
(* Bounds of the model (not program constants).                            *)
(***************************************************************************)
\* The longest prompt tried is MAX_PROMPT_CHARS + MaxOver characters long.
MaxOver == 1
\* Up to MaxPad whitespace characters surround the boundary-length prompts.
MaxPad == 1

(***************************************************************************)
(* Text primitives (Python str methods used by agent.py).                  *)
(***************************************************************************)
\* Python None; a text never has a multi-character element.
None == <<"None">>

\* (x or "")
OrEmpty(x) == IF x = None THEN <<>> ELSE x

\* Characters str.strip() and the regex class \s treat as whitespace.
WS == {" ", "\n", "\t", "\r"}

UpperChars == <<"A","B","C","D","E","F","G","H","I","J","K","L","M",
                "N","O","P","Q","R","S","T","U","V","W","X","Y","Z">>
LowerChars == <<"a","b","c","d","e","f","g","h","i","j","k","l","m",
                "n","o","p","q","r","s","t","u","v","w","x","y","z">>
Digits == {"0","1","2","3","4","5","6","7","8","9"}
LowerSet == {LowerChars[i] : i \in 1..26}
UpperSet == {UpperChars[i] : i \in 1..26}

LowerChar(c) ==
  IF c \in UpperSet
    THEN LowerChars[CHOOSE i \in 1..26 : UpperChars[i] = c]
    ELSE c

\* str.lower()
Lower(s) == [i \in 1..Len(s) |-> LowerChar(s[i])]

\* The first index at or after i, and the last at or before i, that holds no
\* whitespace (Len(s) + 1 and 0 if there is none).
RECURSIVE SkipWS(_, _)
SkipWS(s, i) ==
  IF i <= Len(s) /\ s[i] \in WS THEN SkipWS(s, i + 1) ELSE i

RECURSIVE SkipWSBack(_, _)
SkipWSBack(s, i) ==
  IF i >= 1 /\ s[i] \in WS THEN SkipWSBack(s, i - 1) ELSE i

\* str.strip()
Strip(s) == SubSeq(s, SkipWS(s, 1), SkipWSBack(s, Len(s)))

\* Variant: one element more than asked for.
Prefix_OneMore(s, n) == SubSeq(s, 1, IF Len(s) < n + 1 THEN Len(s) ELSE n + 1)

\* s[:n]
Prefix(s, n) == SubSeq(s, 1, IF Len(s) < n THEN Len(s) ELSE n)

\* s[n:]  (0-based n, as in Python)
Suffix(s, n) == SubSeq(s, n + 1, Len(s))

\* s.startswith(p)
StartsWith(s, p) == Len(s) >= Len(p) /\ SubSeq(s, 1, Len(p)) = p

\* s[i..] starts with p (1-based i)
MatchAt(s, i, p) ==
  /\ i >= 1
  /\ i + Len(p) - 1 <= Len(s)
  /\ \A k \in 1..Len(p) : s[i + k - 1] = p[k]

\* sub in s
Contains(s, sub) == \E i \in 1..(Len(s) - Len(sub) + 1) : MatchAt(s, i, sub)

\* Least and greatest element of a non-empty set of integers.
Min(S) == CHOOSE x \in S : \A y \in S : x <= y
Max(S) == CHOOSE x \in S : \A y \in S : y <= x

\* The elements of a finite set of integers in increasing order.
SortedSeq(S) ==
  [k \in 1..Cardinality(S) |->
     CHOOSE x \in S : Cardinality({y \in S : y < x}) = k - 1]

\* s.split(sep) for a one-character separator: the pieces between the
\* occurrences of sep, empty pieces included.
SplitChar(s, sep) ==
  LET cut == SortedSeq({i \in 1..Len(s) : s[i] = sep})
      n   == Len(cut)
  IN  [k \in 1..(n + 1) |->
         SubSeq(s, IF k = 1 THEN 1 ELSE cut[k - 1] + 1,
                   IF k = n + 1 THEN Len(s) ELSE cut[k] - 1)]

\* s.split(":", 1)[1]: what follows the first colon.
AfterColon(s) ==
  LET c == {i \in 1..Len(s) : s[i] = ":"}
  IN  IF c = {} THEN <<>> ELSE SubSeq(s, Min(c) + 1, Len(s))

\* str.splitlines() for "\n" line ends: no empty last line after a final
\* line end, and no line at all for the empty text.
SplitLines(s) ==
  IF s = <<>> THEN <<>>
  ELSE LET parts == SplitChar(s, "\n")
       IN  IF s[Len(s)] = "\n" THEN SubSeq(parts, 1, Len(parts) - 1)
           ELSE parts

\* The elements of seq at the indices in keep, in order.
SelectIdx(seq, keep) ==
  LET at == SortedSeq(keep)
  IN  [k \in 1..Len(at) |-> seq[at[k]]]

\* re.findall over a character class: the maximal runs of characters of cls.
Runs(s, cls) ==
  LET starts == {i \in 1..Len(s) :
                   s[i] \in cls /\ (i = 1 \/ s[i - 1] \notin cls)}
      st     == SortedSeq(starts)
      EndOf(i) == Min({j \in i..Len(s) :
                         j = Len(s) \/ s[j + 1] \notin cls})
  IN  [k \in 1..Len(st) |-> SubSeq(s, st[k], EndOf(st[k]))]

\* "sep".join(parts)
RECURSIVE Join(_, _)
Join(parts, sep) ==
  IF parts = <<>> THEN <<>>
  ELSE IF Len(parts) = 1 THEN parts[1]
  ELSE parts[1] \o sep \o Join(Tail(parts), sep)

(***************************************************************************)
(* Literals of agent.py.                                                   *)
(***************************************************************************)
\* agent.py _STOPWORDS
_STOPWORDS ==
  { <<"a">>,
    <<"a","d">>,
    <<"a","m","a","z","o","n">>,
    <<"a","n">>,
    <<"a","n","d">>,
    <<"b","e","n","e","f","i","t","s">>,
    <<"b","e","s","t">>,
    <<"b","u","l","l","e","t">>,
    <<"b","u","l","l","e","t","s">>,
    <<"b","y">>,
    <<"c","r","e","a","t","e">>,
    <<"c","t","a">>,
    <<"f","o","r">>,
    <<"f","r","o","m">>,
    <<"g","r","e","a","t">>,
    <<"h","i","g","h">>,
    <<"i","n">>,
    <<"i","n","c","l","u","d","e">>,
    <<"i","n","c","l","u","d","e","s">>,
    <<"i","n","c","l","u","d","i","n","g">>,
    <<"i","n","t","o">>,
    <<"m","a","k","e">>,
    <<"n","e","w">>,
    <<"n","e","x","t">>,
    <<"n","o","w">>,
    <<"o","f">>,
    <<"o","n">>,
    <<"o","r">>,
    <<"o","v","e","r">>,
    <<"p","l","e","a","s","e">>,
    <<"p","r","e","m","i","u","m">>,
    <<"q","u","a","l","i","t","y">>,
    <<"s","t","y","l","e">>,
    <<"t","h","a","t">>,
    <<"t","h","e">>,
    <<"t","h","e","s","e">>,
    <<"t","h","i","s">>,
    <<"t","h","o","s","e">>,
    <<"t","o">>,
    <<"t","o","p">>,
    <<"u","n","d","e","r">>,
    <<"w","i","t","h">>,
    <<"w","i","t","h","o","u","t">>,
    <<"w","r","i","t","e">>,
    <<"y","o","u","r">> }

\* agent.py _INTENT_HINTS
_INTENT_HINTS ==
  { <<"a","d">>,
    <<"c","r","e","a","t","e">>,
    <<"g","e","n","e","r","a","t","e">>,
    <<"h","e","a","d","l","i","n","e">>,
    <<"k","e","y","w","o","r","d","s">>,
    <<"l","i","s","t","i","n","g">>,
    <<"p","r","o","d","u","c","t">>,
    <<"w","r","i","t","e">> }

\* agent.py _PRODUCT_HINTS
_PRODUCT_HINTS ==
  { <<"b","a","c","k","p","a","c","k">>,
    <<"b","o","t","t","l","e">>,
    <<"c","a","m","e","r","a">>,
    <<"c","h","a","r","g","e","r">>,
    <<"c","u","p">>,
    <<"d","r","e","s","s">>,
    <<"h","e","a","d","p","h","o","n","e","s">>,
    <<"k","e","y","b","o","a","r","d">>,
    <<"l","a","p","t","o","p">>,
    <<"m","o","u","s","e">>,
    <<"m","u","g">>,
    <<"p","e","r","f","u","m","e">>,
    <<"s","h","o","e">>,
    <<"s","k","i","n","c","a","r","e">>,
    <<"s","p","e","a","k","e","r">>,
    <<"w","a","t","c","h">> }

S_task == <<"t","a","s","k",":">>

S_write_only == <<"w","r","i","t","e"," ","o","n","l","y">>

S_headline == <<"h","e","a","d","l","i","n","e">>

S_headline_only == <<"h","e","a","d","l","i","n","e"," ","o","n","l","y">>

S_5_keywords == <<"5"," ","k","e","y","w","o","r","d","s">>

S_five_keywords == <<"f","i","v","e"," ","k","e","y","w","o","r","d","s">>

S_keywords_must == <<"k","e","y","w","o","r","d","s"," ","t","h","a","t"," ","m","u","s","t"," ","b","e"," ","i","n","c","l","u","d","e","d">>

S_Headline == <<"H","e","a","d","l","i","n","e",":">>

S_Bullets == <<"B","u","l","l","e","t","s",":">>

S_Short == <<"S","h","o","r","t"," ","d","e","s","c","r","i","p","t","i","o","n",":">>

S_Keywords == <<"K","e","y","w","o","r","d","s",":">>

S_Tips == <<"P","u","b","l","i","s","h","i","n","g"," ","t","i","p","s",":">>

S_keywords_lc == <<"k","e","y","w","o","r","d","s",":">>

S_RAG == <<"R","A","G"," ","C","a","t","e","g","o","r","y"," ","F","i","l","t","e","r",":">>

S_Category == <<"C","a","t","e","g","o","r","y",":">>

S_Task == <<"T","a","s","k",":">>

S_Product == <<"P","r","o","d","u","c","t",":">>

S_product_lc == <<"p","r","o","d","u","c","t",":">>

S_category_sp == <<"c","a","t","e","g","o","r","y"," ">>


_MODE_FULL == "full"
_MODE_HEADLINE == "headline"
_MODE_KEYWORDS5 == "keywords5"
Modes == {_MODE_FULL, _MODE_HEADLINE, _MODE_KEYWORDS5}


\* Character classes of the regexes.
AlnumLower == LowerSet \cup Digits              \* [a-z0-9]
AlphaHyphen == LowerSet \cup UpperSet \cup {"-"} \* [a-zA-Z\-]

\* Variant: equal keys in decreasing index order (an unstable sort).
StableDesc_TiesReversed(idx, key) ==
  [k \in 1..Cardinality(idx) |->
     CHOOSE i \in idx :
       Cardinality({j \in idx : key[j] > key[i] \/ (key[j] = key[i] /\ j > i)})
         = k - 1]

\* The indices of idx ordered by decreasing key[i], equal keys in increasing
\* index order: Python's stable sorted(..., reverse=True).
StableDesc(idx, key) ==
  [k \in 1..Cardinality(idx) |->
     CHOOSE i \in idx :
       Cardinality({j \in idx : key[j] > key[i] \/ (key[j] = key[i] /\ j < i)})
         = k - 1]

(***************************************************************************)
(* ModeDetector                                                            *)
(***************************************************************************)
_detect_mode(prompt) ==
  LET p == Lower(OrEmpty(prompt))
      headline == (Contains(p, S_write_only) /\ Contains(p, S_headline))
                    \/ Contains(p, S_headline_only)
  IN  IF Contains(p, S_task)
        THEN IF headline THEN _MODE_HEADLINE
             ELSE IF Contains(p, S_5_keywords) \/ Contains(p, S_five_keywords)
                       \/ Contains(p, S_keywords_must)
                    THEN _MODE_KEYWORDS5
                    ELSE _MODE_FULL
        ELSE IF headline THEN _MODE_HEADLINE
             ELSE IF Contains(p, S_5_keywords) \/ Contains(p, S_five_keywords)
                    THEN _MODE_KEYWORDS5
                    ELSE _MODE_FULL

(***************************************************************************)
(* OutputFormatValidator                                                   *)
(***************************************************************************)
\* [^\n]+\n from position p: the position after the line end, 0 if no match.
LineRest(t, p) ==
  IF p = 0 THEN 0
  ELSE LET nl == {j \in p..Len(t) : t[j] = "\n"}
       IN  IF nl = {} \/ Min(nl) = p THEN 0 ELSE Min(nl) + 1

\* lit\s from position p: the position after the whitespace, 0 if no match.
LitSpace(t, p, lit) ==
  IF p = 0 \/ ~MatchAt(t, p, lit) THEN 0
  ELSE LET q == p + Len(lit)
       IN  IF q <= Len(t) /\ t[q] \in WS THEN q + 1 ELSE 0

\* lit\s[^\n]+\n from position p.
Section(t, p, lit) == LineRest(t, LitSpace(t, p, lit))

\* Bullets:\n from position p.
BulletsLine(t, p) ==
  IF p # 0 /\ MatchAt(t, p, S_Bullets \o <<"\n">>) THEN p + Len(S_Bullets) + 1
  ELSE 0

\* (?:-\s[^\n]+\n){n} from position p.
RECURSIVE BulletLines(_, _, _)
BulletLines(t, p, n) ==
  IF n = 0 THEN p ELSE BulletLines(t, Section(t, p, <<"-">>), n - 1)

\* _FULL_FORMAT_REGEX.fullmatch(t)
_FULL_FORMAT_REGEX(t) ==
  LET p1 == Section(t, 1, S_Headline)
      p2 == BulletsLine(t, p1)
      p3 == BulletLines(t, p2, 5)
      p4 == Section(t, p3, S_Short)
      p5 == Section(t, p4, S_Keywords)
      p6 == LitSpace(t, p5, S_Tips)
  IN  /\ p6 # 0
      /\ p6 <= Len(t)
      /\ \A j \in p6..Len(t) : t[j] # "\n"

\* _HEADLINE_ONLY_REGEX.fullmatch(t)
_HEADLINE_ONLY_REGEX(t) ==
  LET p == LitSpace(t, 1, S_Headline)
  IN  /\ p # 0
      /\ Len(t) - p + 1 >= 3
      /\ Len(t) - p + 1 <= 200
      /\ \A j \in p..Len(t) : t[j] # "\n"

\* Variant: one-character items are let through.
_validate_keywords5_line_AnyLength(text) ==
  LET t     == Strip(OrEmpty(text))
      rest  == Strip(AfterColon(t))
      split == SplitChar(rest, ",")
      parts == SelectIdx(split, {k \in 1..Len(split) : Strip(split[k]) # <<>>})
  IN  /\ StartsWith(Lower(t), S_keywords_lc)
      /\ rest # <<>>
      /\ Len(parts) = 5

_validate_keywords5_line(text) ==
  LET t     == Strip(OrEmpty(text))
      rest  == Strip(AfterColon(t))
      split == SplitChar(rest, ",")
      parts == SelectIdx(split, {k \in 1..Len(split) : Strip(split[k]) # <<>>})
  IN  /\ StartsWith(Lower(t), S_keywords_lc)
      /\ rest # <<>>
      /\ Len(parts) = 5
      /\ \A k \in 1..Len(parts) : Len(Strip(parts[k])) >= 2

_is_valid_format(text, mode) ==
  LET t == Strip(OrEmpty(text))
  IN  IF t = <<>> THEN FALSE
      ELSE IF mode = _MODE_HEADLINE THEN _HEADLINE_ONLY_REGEX(t)
      ELSE IF mode = _MODE_KEYWORDS5 THEN _validate_keywords5_line(t)
      ELSE _FULL_FORMAT_REGEX(t)

(***************************************************************************)
(* ClarificationGate                                                       *)
(***************************************************************************)
MIN_PROMPT_CHARS_FOR_AGENT == 12
MIN_TOKENS_FOR_AGENT == 3

\* Variant: an intent word is enough to let a request through.
_should_clarify_IntentSuffices(prompt) ==
  LET p    == Strip(OrEmpty(prompt))
      p_l  == Lower(p)
      toks == Runs(p_l, AlnumLower)
      meaningful == Cardinality({k \in 1..Len(toks) : Len(toks[k]) >= 2})
      has_intent  == \E h \in _INTENT_HINTS : Contains(p_l, h)
      has_product == (\E h \in _PRODUCT_HINTS : Contains(p_l, h))
                       \/ Contains(p_l, S_product_lc)
  IN  IF p = <<>> THEN <<TRUE, "empty">>
      ELSE IF Len(p) < MIN_PROMPT_CHARS_FOR_AGENT THEN <<TRUE, "too_short">>
      ELSE IF meaningful < MIN_TOKENS_FOR_AGENT
             THEN IF has_product THEN <<FALSE, "">>
                  ELSE <<TRUE, "too_few_tokens">>
      ELSE IF ~has_intent /\ ~has_product THEN <<TRUE, "no_intent_or_product">>
      ELSE <<FALSE, "">>

\* Variant: the token count is looked at before the intent/product rule.
_should_clarify_TokensFirst(prompt) ==
  LET p    == Strip(OrEmpty(prompt))
      p_l  == Lower(p)
      toks == Runs(p_l, AlnumLower)
      meaningful == Cardinality({k \in 1..Len(toks) : Len(toks[k]) >= 2})
      has_intent  == \E h \in _INTENT_HINTS : Contains(p_l, h)
      has_product == (\E h \in _PRODUCT_HINTS : Contains(p_l, h))
                       \/ Contains(p_l, S_product_lc)
  IN  IF p = <<>> THEN <<TRUE, "empty">>
      ELSE IF Len(p) < MIN_PROMPT_CHARS_FOR_AGENT THEN <<TRUE, "too_short">>
      ELSE IF meaningful < MIN_TOKENS_FOR_AGENT
             THEN IF has_product THEN <<FALSE, "">>
                  ELSE <<TRUE, "too_few_tokens">>
      ELSE IF has_intent /\ ~has_product THEN <<TRUE, "missing_product">>
      ELSE IF ~has_intent /\ ~has_product THEN <<TRUE, "no_intent_or_product">>
      ELSE <<FALSE, "">>

_should_clarify(prompt) ==
  LET p    == Strip(OrEmpty(prompt))
      p_l  == Lower(p)
      toks == Runs(p_l, AlnumLower)
      meaningful == Cardinality({k \in 1..Len(toks) : Len(toks[k]) >= 2})
      has_intent  == \E h \in _INTENT_HINTS : Contains(p_l, h)
      has_product == (\E h \in _PRODUCT_HINTS : Contains(p_l, h))
                       \/ Contains(p_l, S_product_lc)
  IN  IF p = <<>> THEN <<TRUE, "empty">>
      ELSE IF Len(p) < MIN_PROMPT_CHARS_FOR_AGENT THEN <<TRUE, "too_short">>
      ELSE IF has_intent /\ ~has_product THEN <<TRUE, "missing_product">>
      ELSE IF meaningful < MIN_TOKENS_FOR_AGENT
             THEN IF has_product THEN <<FALSE, "">>
                  ELSE <<TRUE, "too_few_tokens">>
      ELSE IF ~has_intent /\ ~has_product THEN <<TRUE, "no_intent_or_product">>
      ELSE <<FALSE, "">>

\* The two canned replies, each a text of one opaque element (their wording
\* is not inspected anywhere).
ClarifyProductTemplate == <<"Sure - what product should I write the ad copy for? ...">>
ClarifyGenericTemplate == <<"Hi! Please describe the product and what you want: ...">>

\* Variant: the generic reply is sent for every reason.
_clarification_response_Generic(reason) == ClarifyGenericTemplate

_clarification_response(reason) ==
  IF reason = "missing_product" THEN ClarifyProductTemplate
  ELSE ClarifyGenericTemplate

(***************************************************************************)
(* QueryRewriter                                                           *)
(***************************************************************************)
\* The value of the last line starting with key, "" if there is none.
LastLineValue(lines, idx) ==
  IF idx = {} THEN <<>> ELSE Strip(AfterColon(lines[Max(idx)]))

\* Variant: stopwords are kept.
SignificantTokens_KeepsStopwords(text) ==
  LET toks == Runs(text, AlnumLower)
  IN  SelectIdx(toks, {k \in 1..Len(toks) : Len(toks[k]) >= 3})

\* Significant tokens: [a-z0-9]+ runs of length >= 3 that are no stopword.
SignificantTokens(text) ==
  LET toks == Runs(text, AlnumLower)
  IN  SelectIdx(toks, {k \in 1..Len(toks) :
                         Len(toks[k]) >= 3 /\ toks[k] \notin _STOPWORDS})

_rewrite_query(prompt) ==
  LET lines == SplitLines(OrEmpty(prompt))
      cat   == {k \in 1..Len(lines) : StartsWith(lines[k], S_Category)}
      prod  == {k \in 1..Len(lines) :
                  ~StartsWith(lines[k], S_Category) /\ StartsWith(lines[k], S_Product)}
      category_part == LastLineValue(lines, cat)
      product_part  == LastLineValue(lines, prod)
      text  == IF category_part # <<>> /\ product_part # <<>>
                 THEN Lower(S_category_sp \o category_part \o <<" ">> \o product_part)
                 ELSE Lower(OrEmpty(prompt))
      q     == Strip(Join(Prefix(SignificantTokens(text), 12), <<" ">>))
  IN  IF q # <<>> THEN q ELSE OrEmpty(prompt)

(***************************************************************************)
(* ContextRanker                                                           *)
(***************************************************************************)
\* The candidate snippets of a raw block: its "- " lines, prefix removed.
CandidateLines(ctx) ==
  LET raw  == SplitLines(ctx)
      ln   == [k \in 1..Len(raw) |-> Strip(raw[k])]
      keep == {k \in 1..Len(ln) :
                 StartsWith(ln[k], <<"-", " ">>) /\ Strip(Suffix(ln[k], 2)) # <<>>}
      at   == SortedSeq(keep)
  IN  [k \in 1..Len(at) |-> Strip(Suffix(ln[at[k]], 2))]

\* Variant: snippets that differ in case are different snippets.
DedupKey_CaseSensitive(s) == Strip(s)

\* k = s.lower().strip(): what two snippets must share to be duplicates.
DedupKey(s) == Strip(Lower(s))

_condense_ctx(prompt, ctx, max_lines) ==
  IF OrEmpty(ctx) = <<>> THEN <<>>
  ELSE
    LET lines == CandidateLines(ctx)
        qseq  == SignificantTokens(Lower(OrEmpty(prompt)))
        q     == {qseq[k] : k \in 1..Len(qseq)}
        score == [i \in 1..Len(lines) |->
                    Cardinality({tok \in q : Contains(Lower(lines[i]), tok)})]
        order == StableDesc(1..Len(lines), score)
        key(k) == DedupKey(lines[order[k]])
        first == {k \in 1..Len(order) :
                    key(k) # <<>> /\ \A j \in 1..(k - 1) : key(j) # key(k)}
        ranked == Prefix(SelectIdx([k \in 1..Len(order) |-> lines[order[k]]], first),
                         max_lines)
    IN  IF lines = <<>> THEN Prefix(ctx, 1200)
        ELSE Join([k \in 1..Len(ranked) |-> <<"-", " ">> \o ranked[k]], <<"\n">>)

(***************************************************************************)
(* AllowedTermExtractor                                                    *)
(***************************************************************************)
\* re.findall(r"[a-zA-Z][a-zA-Z\-]{2,}", text): of every maximal run of
\* letters and hyphens, what follows its leading hyphens, if 3 or longer.
TermTokens(text) ==
  LET runs == Runs(text, AlphaHyphen)
      cut(r) == LET letters == {i \in 1..Len(r) : r[i] # "-"}
                IN  IF letters = {} THEN <<>> ELSE SubSeq(r, Min(letters), Len(r))
      toks == [k \in 1..Len(runs) |-> cut(runs[k])]
  IN  SelectIdx(toks, {k \in 1..Len(toks) : Len(toks[k]) >= 3})

\* Variant: a term seen once is kept.
_extract_allowed_terms_Once(condensed_ctx, max_terms) ==
  IF OrEmpty(condensed_ctx) = <<>> THEN <<>>
  ELSE
    LET all   == TermTokens(Lower(condensed_ctx))
        toks  == SelectIdx(all, {k \in 1..Len(all) : all[k] \notin _STOPWORDS})
        firsts == {i \in 1..Len(toks) : \A j \in 1..(i - 1) : toks[j] # toks[i]}
        count == [i \in 1..Len(toks) |->
                    Cardinality({j \in 1..Len(toks) : toks[j] = toks[i]})]
        most_common == Prefix(StableDesc(firsts, count), 80)
    IN  Prefix([k \in 1..Len(most_common) |-> toks[most_common[k]]], max_terms)

_extract_allowed_terms(condensed_ctx, max_terms) ==
  IF OrEmpty(condensed_ctx) = <<>> THEN <<>>
  ELSE
    LET all   == TermTokens(Lower(condensed_ctx))
        toks  == SelectIdx(all, {k \in 1..Len(all) : all[k] \notin _STOPWORDS})
        firsts == {i \in 1..Len(toks) : \A j \in 1..(i - 1) : toks[j] # toks[i]}
        count == [i \in 1..Len(toks) |->
                    Cardinality({j \in 1..Len(toks) : toks[j] = toks[i]})]
        most_common == Prefix(StableDesc(firsts, count), 80)
        common == SelectIdx(most_common,
                            {k \in 1..Len(most_common) : count[most_common[k]] >= 2})
    IN  Prefix([k \in 1..Len(common) |-> toks[common[k]]], max_terms)


(***************************************************************************)
(* PromptAssembler                                                         *)
(***************************************************************************)
S_none == <<"(","n","o","n","e",")">>

\* The instruction pair.  The system message is one fixed text; the user
\* message is a fixed frame around the request, the allowed-terms block
\* (absent when there are no terms), the condensed context or "(none)",
\* and the output format of the mode: the record holds those four parts.
_build_messages(prompt, condensed_ctx, allowed_terms, mode) ==
  [system |-> <<"You are Ad-Wise, an expert performance copywriter. ...">>,
   user   |-> [request       |-> prompt,
               allowed_block |-> allowed_terms,
               inspiration   |-> IF condensed_ctx # <<>> THEN condensed_ctx
                                 ELSE S_none,
               output_format |-> mode]]

(***************************************************************************)
(* Configuration (app/settings.py) and the inputs tried.                   *)
(***************************************************************************)
MAX_PROMPT_CHARS == 4000

\* A free-form request of n characters with no marker and no hint word.
Fill(n) == [i \in 1..n |-> "a"]
Pad(k) == [i \in 1..k |-> " "]

\* Requests around the length limit, bare or surrounded by whitespace.
BoundaryPrompts ==
  {Pad(k) \o Fill(n) \o Pad(k) :
     n \in MAX_PROMPT_CHARS..(MAX_PROMPT_CHARS + MaxOver), k \in 0..MaxPad}

\* '  \n'
P_blank ==
    <<" "," ","\n">>

\* 'Task: x'
P_task_short ==
    <<"T","a","s","k",":"," ","x">>

\* 'red mug'
P_red_mug ==
    <<"r","e","d"," ","m","u","g">>

\* 'please write me an ad'
P_write_ad ==
    <<"p","l","e","a","s","e"," ","w","r","i","t","e"," ","m","e"," ","a","n"," ","a","d">>

\* 'hello there, how are you'
P_hello ==
    <<"h","e","l","l","o"," ","t","h","e","r","e",","," ","h","o","w"," ","a","r","e"," ","y","o",
      "u">>

\* 'zzzzzzzz qqqqqqq'
P_two_tokens ==
    <<"z","z","z","z","z","z","z","z"," ","q","q","q","q","q","q","q">>

\* 'mugmugmugmug!'
P_mug_run ==
    <<"m","u","g","m","u","g","m","u","g","m","u","g","!">>

\* ' red ceramic mug 350ml '
P_free_full ==
    <<" ","r","e","d"," ","c","e","r","a","m","i","c"," ","m","u","g"," ","3","5","0","m","l"," ">>

\* 'mug listing, headline only'
P_free_headline ==
    <<"m","u","g"," ","l","i","s","t","i","n","g",","," ","h","e","a","d","l","i","n","e"," ","o",
      "n","l","y">>

\* 'give me 5 keywords for a steel bottle'
P_free_keywords ==
    <<"g","i","v","e"," ","m","e"," ","5"," ","k","e","y","w","o","r","d","s"," ","f","o","r"," ",
      "a"," ","s","t","e","e","l"," ","b","o","t","t","l","e">>

\* 'task: headline only mug'
P_lower_task ==
    <<"t","a","s","k",":"," ","h","e","a","d","l","i","n","e"," ","o","n","l","y"," ","m","u","g">>

\* 'Product: red mug\nCategory: Kitchen\nRAG Category Filter: kitchen\nConstraints: None\nTask: Write a full high-converting ad'
P_wizard_full ==
    <<"P","r","o","d","u","c","t",":"," ","r","e","d"," ","m","u","g","\n","C","a","t","e","g","o",
      "r","y",":"," ","K","i","t","c","h","e","n","\n","R","A","G"," ","C","a","t","e","g","o",
      "r","y"," ","F","i","l","t","e","r",":"," ","k","i","t","c","h","e","n","\n","C","o","n",
      "s","t","r","a","i","n","t","s",":"," ","N","o","n","e","\n","T","a","s","k",":"," ","W",
      "r","i","t","e"," ","a"," ","f","u","l","l"," ","h","i","g","h","-","c","o","n","v","e",
      "r","t","i","n","g"," ","a","d">>

\* 'Product: steel bottle\nTask: Write only a headline'
P_wizard_headline ==
    <<"P","r","o","d","u","c","t",":"," ","s","t","e","e","l"," ","b","o","t","t","l","e","\n","T",
      "a","s","k",":"," ","W","r","i","t","e"," ","o","n","l","y"," ","a"," ","h","e","a","d",
      "l","i","n","e">>

\* 'Category: Kitchen\nTask: Give me 5 keywords that must be included'
P_wizard_keywords ==
    <<"C","a","t","e","g","o","r","y",":"," ","K","i","t","c","h","e","n","\n","T","a","s","k",":",
      " ","G","i","v","e"," ","m","e"," ","5"," ","k","e","y","w","o","r","d","s"," ","t","h",
      "a","t"," ","m","u","s","t"," ","b","e"," ","i","n","c","l","u","d","e","d">>

Prompts ==
  { None,
    <<>>,
    P_blank,
    P_task_short,
    P_red_mug,
    P_write_ad,
    P_hello,
    P_two_tokens,
    P_mug_run,
    P_free_full,
    P_free_headline,
    P_free_keywords,
    P_lower_task,
    P_wizard_full,
    P_wizard_headline,
    P_wizard_keywords }

\* ''
T_empty ==
    <<>>

\* ' \n'
T_blank ==
    <<" ","\n">>

\* 'Great red mug!'
T_junk ==
    <<"G","r","e","a","t"," ","r","e","d"," ","m","u","g","!">>

\* 'Headline: Red mug'
T_headline ==
    <<"H","e","a","d","l","i","n","e",":"," ","R","e","d"," ","m","u","g">>

\* ' Headline: Red mug\n'
T_headline_padded ==
    <<" ","H","e","a","d","l","i","n","e",":"," ","R","e","d"," ","m","u","g","\n">>

\* 'Keywords: mug, red mug, cup, tea cup, gift'
T_keywords ==
    <<"K","e","y","w","o","r","d","s",":"," ","m","u","g",","," ","r","e","d"," ","m","u","g",",",
      " ","c","u","p",","," ","t","e","a"," ","c","u","p",","," ","g","i","f","t">>

\* 'Headline: a\nBullets:\n- a\n- b\n- c\n- d\n- e\nShort description: s\nKeywords: k\nPublishing tips: t'
T_full ==
    <<"H","e","a","d","l","i","n","e",":"," ","a","\n","B","u","l","l","e","t","s",":","\n","-"," ",
      "a","\n","-"," ","b","\n","-"," ","c","\n","-"," ","d","\n","-"," ","e","\n","S","h","o",
      "r","t"," ","d","e","s","c","r","i","p","t","i","o","n",":"," ","s","\n","K","e","y","w",
      "o","r","d","s",":"," ","k","\n","P","u","b","l","i","s","h","i","n","g"," ","t","i","p",
      "s",":"," ","t">>

\* 'Headline: a\nBullets:\n- a\n- b\n- c\n- d\nShort description: s\nKeywords: k\nPublishing tips: t'
T_full_4_bullets ==
    <<"H","e","a","d","l","i","n","e",":"," ","a","\n","B","u","l","l","e","t","s",":","\n","-"," ",
      "a","\n","-"," ","b","\n","-"," ","c","\n","-"," ","d","\n","S","h","o","r","t"," ","d",
      "e","s","c","r","i","p","t","i","o","n",":"," ","s","\n","K","e","y","w","o","r","d","s",
      ":"," ","k","\n","P","u","b","l","i","s","h","i","n","g"," ","t","i","p","s",":"," ","t">>

GeneratorTexts ==
  { None,
    T_empty,
    T_blank,
    T_junk,
    T_headline,
    T_headline_padded,
    T_keywords,
    T_full,
    T_full_4_bullets }

\* '[Category: kitchen]\n- Red Mug\n- Steel bottle, red\n- red mug\n- Blue mug'
X_block ==
    <<"[","C","a","t","e","g","o","r","y",":"," ","k","i","t","c","h","e","n","]","\n","-"," ","R",
      "e","d"," ","M","u","g","\n","-"," ","S","t","e","e","l"," ","b","o","t","t","l","e",",",
      " ","r","e","d","\n","-"," ","r","e","d"," ","m","u","g","\n","-"," ","B","l","u","e"," ",
      "m","u","g">>

\* '[Category: kitchen]'
X_noise ==
    <<"[","C","a","t","e","g","o","r","y",":"," ","k","i","t","c","h","e","n","]">>


\* category_filter values: none, or the id carried by the structured request.
S_kitchen == <<"k","i","t","c","h","e","n">>
CategoryFilters == {<<>>, S_kitchen}

\* '[Category: unknown]\n- Red Mug\n- Blue mug'
X_fts ==
    <<"[","C","a","t","e","g","o","r","y",":"," ","u","n","k","n","o","w","n","]","\n","-"," ","R",
      "e","d"," ","M","u","g","\n","-"," ","B","l","u","e"," ","m","u","g">>

\* The fields of RetrievalTrace that run_agent copies into its step; a note
\* is a text of opaque pieces.
RetrievalTrace(provider, matches, note) ==
  [provider |-> provider, matches |-> matches, note |-> note]

\* Faults the collaborators can raise: kind and message of the exception.
Fault(kind, msg) == [kind |-> kind, msg |-> msg]

\* How a call ends: it returns (ctx, trace) or it raises.
Returned(c, trace) ==
  [kind |-> "return", ctx |-> c, trace |-> trace, fault |-> Fault("", "")]
Raised(e) ==
  [kind |-> "raise", ctx |-> None, trace |-> RetrievalTrace("", 0, <<>>),
   fault |-> e]

\* The vector database as one call finds it: no API key configured; the
\* query path raises; the index answers with matches (under the category
\* filter when one is given); it answers only once the filter is dropped; it
\* answers with no match; the block is cut by MAX_CTX_CHARS before its first
\* candidate line.
PineconeStates ==
  {"no_key", "raises", "matches", "filter_misses", "no_matches", "cut"}
PineconeFault == Fault("ConnectionError", "index unreachable")

\* The local SQLite file: not there; there but sqlite3.connect fails; opens
\* but the MATCH query fails; answers with rows; answers with none.
LocalDbStates == {"absent", "unopenable", "broken", "rows", "no_rows"}

\* [t for t in query.lower().split() if len(t) >= 3] is not empty.
HasUsableToken(query) ==
  \E i \in 1..(Len(query) - 2) : \A k \in 0..2 : query[i + k] \notin WS

\* retriever.py _fts_fallback: nothing catches what connect or execute raise.
_fts_fallback(query, db) ==
  IF db = "absent"
    THEN Returned(<<>>, RetrievalTrace("none", 0,
                          <<"No Pinecone and no local FTS DB available">>))
  ELSE IF db = "unopenable"
    THEN Raised(Fault("OperationalError", "unable to open database file"))
  ELSE IF ~HasUsableToken(query)
    THEN Returned(<<>>, RetrievalTrace("local_fts", 0,
                          <<"Query had no usable tokens">>))
  ELSE IF db = "broken"
    THEN Raised(Fault("OperationalError", "no such table: ads_fts"))
  ELSE IF db = "rows"
    THEN Returned(X_fts, RetrievalTrace("local_fts", 2,
                           <<"Used local SQLite FTS fallback">>))
  ELSE Returned(<<>>, RetrievalTrace("local_fts", 0,
                        <<"Used local SQLite FTS fallback">>))

\* retriever.py retrieve_examples, for one state of its two collaborators.
retrieve_examples(query_text, filter, pinecone, db) ==
  IF pinecone = "no_key" THEN _fts_fallback(query_text, db)
  ELSE IF pinecone = "raises"
    THEN LET fb == _fts_fallback(query_text, db)
         IN  IF fb.kind = "raise" THEN fb
             ELSE Returned(fb.ctx,
                    [fb.trace EXCEPT !.note =
                       <<"Pinecone retrieval failed; fallback used. Reason: ",
                         PineconeFault.kind, ": ", PineconeFault.msg>>])
  ELSE LET note == IF filter = <<>> THEN <<"no_filter">>
                   ELSE IF pinecone \in {"matches", "cut"}
                     THEN <<"filter:category">>
                   ELSE <<"Category filter '">> \o filter \o
                        <<"' returned no matches; fell back to unfiltered retrieval">>
           block == IF pinecone = "no_matches" THEN <<>>
                    ELSE IF pinecone = "cut" THEN X_noise
                    ELSE X_block
       IN  Returned(block,
             RetrievalTrace("pinecone",
                            IF pinecone = "no_matches" THEN 0 ELSE 1, note))

GeneratorFaults == {Fault("RuntimeError", "LLM call failed: status=500"),
                    Fault("ReadTimeout", "read timed out")}

\* f"{type(e).__name__}: {str(e)}"
FormatError(e) == <<e.kind, ": ", e.msg>>

\* meta of llm_generate_ad: the preview of the text (url, model and usage
\* are the backend's own).
Meta(text) == [text_preview |-> Prefix(OrEmpty(text), 1200)]

(***************************************************************************)
(* ConversationStateMachine (conversation_manager.py).  A character        *)
(* outside ASCII is written as its code point ("U+05D7"); str.lower and    *)
(* str.strip leave the ones used here alone.                               *)
(***************************************************************************)
\* 'full_ad'
A_full_ad ==
    <<"f","u","l","l","_","a","d">>

\* 'headline_only'
A_headline_only ==
    <<"h","e","a","d","l","i","n","e","_","o","n","l","y">>

\* 'keywords_5'
A_keywords_5 ==
    <<"k","e","y","w","o","r","d","s","_","5">>

\* The ids of MENU_ACTIONS (each option also has a label and a description).
MENU_ACTIONS == <<A_full_ad, A_headline_only, A_keywords_5>>

\* 'electronics'
ID_electronics ==
    <<"e","l","e","c","t","r","o","n","i","c","s">>

\* 'electronics'
PC_electronics ==
    <<"e","l","e","c","t","r","o","n","i","c","s">>

\* 'U+1F4BB  Electronics & Computers'
L_electronics ==
    <<"U+1F4BB"," "," ","E","l","e","c","t","r","o","n","i","c","s"," ","&"," ","C","o",
      "m","p","u","t","e","r","s">>

\* 'Electronics (General)'
LS_electronics ==
    <<"E","l","e","c","t","r","o","n","i","c","s"," ","(","G","e","n","e","r","a","l",
      ")">>

\* 'computers'
ID_computers ==
    <<"c","o","m","p","u","t","e","r","s">>

\* 'computers'
PC_computers ==
    <<"c","o","m","p","u","t","e","r","s">>

\* 'Computers'
LS_computers ==
    <<"C","o","m","p","u","t","e","r","s">>

\* 'home_kitchen'
ID_home_kitchen ==
    <<"h","o","m","e","_","k","i","t","c","h","e","n">>

\* 'home-kitchen'
PC_home_kitchen ==
    <<"h","o","m","e","-","k","i","t","c","h","e","n">>

\* 'U+1F3E0  Home & Kitchen'
L_home_kitchen ==
    <<"U+1F3E0"," "," ","H","o","m","e"," ","&"," ","K","i","t","c","h","e","n">>

\* 'sports_outdoors'
ID_sports_outdoors ==
    <<"s","p","o","r","t","s","_","o","u","t","d","o","o","r","s">>

\* 'sports-outdoors'
PC_sports_outdoors ==
    <<"s","p","o","r","t","s","-","o","u","t","d","o","o","r","s">>

\* 'U+26BD  Sports & Outdoors'
L_sports_outdoors ==
    <<"U+26BD"," "," ","S","p","o","r","t","s"," ","&"," ","O","u","t","d","o","o","r",
      "s">>

\* 'beauty_health'
ID_beauty_health ==
    <<"b","e","a","u","t","y","_","h","e","a","l","t","h">>

\* 'health-household'
PC_health_household ==
    <<"h","e","a","l","t","h","-","h","o","u","s","e","h","o","l","d">>

\* 'U+1F484  Beauty & Health'
L_beauty_health ==
    <<"U+1F484"," "," ","B","e","a","u","t","y"," ","&"," ","H","e","a","l","t","h">>

\* 'beauty'
ID_beauty ==
    <<"b","e","a","u","t","y">>

\* 'beauty'
PC_beauty ==
    <<"b","e","a","u","t","y">>

\* 'Beauty'
LS_beauty ==
    <<"B","e","a","u","t","y">>

\* 'health-household'
ID_health_household ==
    <<"h","e","a","l","t","h","-","h","o","u","s","e","h","o","l","d">>

\* 'Health & Household'
LS_health_household ==
    <<"H","e","a","l","t","h"," ","&"," ","H","o","u","s","e","h","o","l","d">>

\* 'automotive'
ID_automotive ==
    <<"a","u","t","o","m","o","t","i","v","e">>

\* 'automotive'
PC_automotive ==
    <<"a","u","t","o","m","o","t","i","v","e">>

\* 'U+1F697  Automotive'
L_automotive ==
    <<"U+1F697"," "," ","A","u","t","o","m","o","t","i","v","e">>

\* 'baby'
ID_baby ==
    <<"b","a","b","y">>

\* 'baby'
PC_baby ==
    <<"b","a","b","y">>

\* 'U+1F37C  Baby'
L_baby ==
    <<"U+1F37C"," "," ","B","a","b","y">>

\* 'pets'
ID_pets ==
    <<"p","e","t","s">>

\* 'pets'
PC_pets ==
    <<"p","e","t","s">>

\* 'U+1F43E  Pets'
L_pets ==
    <<"U+1F43E"," "," ","P","e","t","s">>

\* 'luggage'
ID_luggage ==
    <<"l","u","g","g","a","g","e">>

\* 'luggage'
PC_luggage ==
    <<"l","u","g","g","a","g","e">>

\* 'U+1F9F3  Luggage & Travel'
L_luggage ==
    <<"U+1F9F3"," "," ","L","u","g","g","a","g","e"," ","&"," ","T","r","a","v","e","l">>

\* 'arts_crafts'
ID_arts_crafts ==
    <<"a","r","t","s","_","c","r","a","f","t","s">>

\* 'arts_crafts'
PC_arts_crafts ==
    <<"a","r","t","s","_","c","r","a","f","t","s">>

\* 'U+1F3A8  Arts & Crafts'
L_arts_crafts ==
    <<"U+1F3A8"," "," ","A","r","t","s"," ","&"," ","C","r","a","f","t","s">>

\* 'industrial'
ID_industrial ==
    <<"i","n","d","u","s","t","r","i","a","l">>

\* 'industrial-scientific'
PC_industrial_scientific ==
    <<"i","n","d","u","s","t","r","i","a","l","-","s","c","i","e","n","t","i","f","i",
      "c">>

\* 'U+1F3ED  Industrial & Scientific'
L_industrial ==
    <<"U+1F3ED"," "," ","I","n","d","u","s","t","r","i","a","l"," ","&"," ","S","c","i",
      "e","n","t","i","f","i","c">>

CATEGORY_TREE ==
  << [id |-> ID_electronics, label |-> L_electronics, pinecone_id |-> PC_electronics,
      subcategories |-> <<[id |-> ID_electronics, label |-> LS_electronics, pinecone_id |-> PC_electronics],
                          [id |-> ID_computers, label |-> LS_computers, pinecone_id |-> PC_computers]>>],
     [id |-> ID_home_kitchen, label |-> L_home_kitchen, pinecone_id |-> PC_home_kitchen,
      subcategories |-> <<>>],
     [id |-> ID_sports_outdoors, label |-> L_sports_outdoors, pinecone_id |-> PC_sports_outdoors,
      subcategories |-> <<>>],
     [id |-> ID_beauty_health, label |-> L_beauty_health, pinecone_id |-> PC_health_household,
      subcategories |-> <<[id |-> ID_beauty, label |-> LS_beauty, pinecone_id |-> PC_beauty],
                          [id |-> ID_health_household, label |-> LS_health_household, pinecone_id |-> PC_health_household]>>],
     [id |-> ID_automotive, label |-> L_automotive, pinecone_id |-> PC_automotive,
      subcategories |-> <<>>],
     [id |-> ID_baby, label |-> L_baby, pinecone_id |-> PC_baby,
      subcategories |-> <<>>],
     [id |-> ID_pets, label |-> L_pets, pinecone_id |-> PC_pets,
      subcategories |-> <<>>],
     [id |-> ID_luggage, label |-> L_luggage, pinecone_id |-> PC_luggage,
      subcategories |-> <<>>],
     [id |-> ID_arts_crafts, label |-> L_arts_crafts, pinecone_id |-> PC_arts_crafts,
      subcategories |-> <<>>],
     [id |-> ID_industrial, label |-> L_industrial, pinecone_id |-> PC_industrial_scientific,
      subcategories |-> <<>>] >>

\* '__back'
B___back ==
    <<"_","_","b","a","c","k">>

\* 'back'
B_back ==
    <<"b","a","c","k">>

\* 'go back'
B_go_back ==
    <<"g","o"," ","b","a","c","k">>

\* 'prev'
B_prev ==
    <<"p","r","e","v">>

\* 'previous'
B_previous ==
    <<"p","r","e","v","i","o","u","s">>

\* 'return'
B_return ==
    <<"r","e","t","u","r","n">>

\* 'U+05D7U+05D6U+05D5U+05E8'
B_hazor ==
    <<"U+05D7","U+05D6","U+05D5","U+05E8">>

\* 'U+05D0U+05D7U+05D5U+05E8U+05D4'
B_ahora ==
    <<"U+05D0","U+05D7","U+05D5","U+05E8","U+05D4">>

BACK_COMMANDS == {B___back, B_back, B_go_back, B_prev, B_previous, B_return, B_hazor, B_ahora}


\* f"{x}" for a text or None.
Str(x) == IF x = None THEN <<"N", "o", "n", "e">> ELSE x

\* s.split(sep)[1]: what stands between the first and the second sep.
SecondPiece(s, sep) ==
  LET rest == Suffix(s, Min({i \in 1..Len(s) : MatchAt(s, i, sep)}) + Len(sep) - 1)
      next == {i \in 1..Len(rest) : MatchAt(rest, i, sep)}
  IN  IF next = {} THEN rest ELSE SubSeq(rest, 1, Min(next) - 1)

ConversationState(step, action, category, subcategory, product, constraints) ==
  [step |-> step, action |-> action, category |-> category,
   subcategory |-> subcategory, product |-> product, constraints |-> constraints]

_empty_state == ConversationState("GREETING", None, None, None, None, None)

\* The caller holds no state: state is None, or a state whose step is empty
\* (process_message treats the two alike).
NoState == ConversationState("", None, None, None, None, None)

\* The entries of CATEGORY_TREE with this id, in order.
Categories(cat_id) ==
  SelectIdx(CATEGORY_TREE, {k \in 1..Len(CATEGORY_TREE) : CATEGORY_TREE[k].id = cat_id})

\* The elements of a sequence, as a set.
Elements(seq) == {seq[k] : k \in 1..Len(seq)}

\* The ids of the options (each option also has the label of its id).
Ids(entries) == [k \in 1..Len(entries) |-> entries[k].id]

_top_level_options == Ids(CATEGORY_TREE)

_subcategory_options(cat_id) ==
  IF Categories(cat_id) = <<>> THEN <<>>
  ELSE Ids(Categories(cat_id)[1].subcategories)

_has_subcategories(cat_id) ==
  Categories(cat_id) # <<>> /\ Len(Categories(cat_id)[1].subcategories) > 1

_all_top_ids == {CATEGORY_TREE[k].id : k \in 1..Len(CATEGORY_TREE)}

\* All subcategories of the tree, in the order the loops visit them.
RECURSIVE AllSubcategories(_)
AllSubcategories(tree) ==
  IF tree = <<>> THEN <<>>
  ELSE tree[1].subcategories \o AllSubcategories(Tail(tree))

_pinecone_id(cat_id, sub_id) ==
  LET subs == AllSubcategories(CATEGORY_TREE)
      hits == {k \in 1..Len(subs) : subs[k].id = sub_id}
  IN  IF sub_id # None /\ sub_id # <<>> /\ hits # {}
        THEN subs[Min(hits)].pinecone_id
      ELSE IF Categories(cat_id) # <<>> THEN Categories(cat_id)[1].pinecone_id
      ELSE cat_id

_category_label(cat_id, sub_id) ==
  IF Categories(cat_id) = <<>> THEN cat_id
  ELSE
    LET c    == Categories(cat_id)[1]
        hits == {k \in 1..Len(c.subcategories) : c.subcategories[k].id = sub_id}
    IN  IF sub_id # None /\ sub_id # <<>> /\ hits # {}
          THEN SecondPiece(c.label, <<" ", " ">>) \o <<" ", ">", " ">>
                 \o c.subcategories[Min(hits)].label
        ELSE IF Contains(c.label, <<" ", " ">>)
          THEN SecondPiece(c.label, <<" ", " ">>)
        ELSE c.label

\* A payload; the options are given by their ids, a message by its literal
\* pieces and the label put between them.
Payload(message, ui_type, options, ready, agent_prompt) ==
  [message |-> message, ui_type |-> ui_type, options |-> options,
   ready |-> ready, agent_prompt |-> agent_prompt]

\* Nothing was returned yet.
NoPayload == Payload(<<>>, "", None, FALSE, None)

_payload_for_step(state) ==
  CASE state.step = "MENU" ->
         Payload(<<"What would you like to do today?">>, "menu", MENU_ACTIONS,
                 FALSE, None)
    [] state.step = "COLLECT_CATEGORY" ->
         Payload(<<"Select the **main category** of your product:">>,
                 "categories", _top_level_options, FALSE, None)
    [] state.step = "COLLECT_SUBCATEGORY" ->
         Payload(<<"Great U+2014 **">> \o Str(_category_label(state.category, None))
                   \o <<"**! Now pick a sub-category:">>,
                 "categories", _subcategory_options(state.category), FALSE, None)
    [] state.step = "COLLECT_PRODUCT" ->
         Payload(<<"Perfect U+2014 **">>
                   \o Str(_category_label(state.category, state.subcategory))
                   \o <<"**!\n\nDescribe your product: ...">>,
                 "input", None, FALSE, None)
    [] state.step = "COLLECT_CONSTRAINTS" ->
         Payload(<<"Any constraints or preferences? ... Or type **skip**.">>,
                 "input", None, FALSE, None)
    [] OTHER ->
         Payload(<<"Something went wrong. Let's start over!">>, "menu",
                 MENU_ACTIONS, FALSE, None)

\* Variant: going back from the product step leaves the product in place.
_go_back_KeepsProduct(state) ==
  CASE state.step \in {"GREETING", "MENU"} -> [_empty_state EXCEPT !.step = "MENU"]
    [] state.step = "COLLECT_CATEGORY" -> [_empty_state EXCEPT !.step = "MENU"]
    [] state.step = "COLLECT_SUBCATEGORY" ->
         [state EXCEPT !.step = "COLLECT_CATEGORY", !.subcategory = None]
    [] state.step = "COLLECT_PRODUCT" ->
         IF state.category # None /\ state.category # <<>>
              /\ _has_subcategories(state.category)
           THEN [state EXCEPT !.step = "COLLECT_SUBCATEGORY"]
           ELSE [state EXCEPT !.step = "COLLECT_CATEGORY", !.category = None,
                              !.subcategory = None]
    [] state.step = "COLLECT_CONSTRAINTS" ->
         [state EXCEPT !.step = "COLLECT_PRODUCT", !.constraints = None]
    [] state.step = "GENERATE" -> [state EXCEPT !.step = "COLLECT_CONSTRAINTS"]
    [] OTHER -> [_empty_state EXCEPT !.step = "MENU"]

\* Variant: back always starts over.
_go_back_Discards(state) == [_empty_state EXCEPT !.step = "MENU"]

_go_back(state) ==
  CASE state.step \in {"GREETING", "MENU"} -> [_empty_state EXCEPT !.step = "MENU"]
    [] state.step = "COLLECT_CATEGORY" -> [_empty_state EXCEPT !.step = "MENU"]
    [] state.step = "COLLECT_SUBCATEGORY" ->
         [state EXCEPT !.step = "COLLECT_CATEGORY", !.subcategory = None]
    [] state.step = "COLLECT_PRODUCT" ->
         IF state.category # None /\ state.category # <<>>
              /\ _has_subcategories(state.category)
           THEN [state EXCEPT !.step = "COLLECT_SUBCATEGORY", !.product = None,
                              !.constraints = None]
           ELSE [state EXCEPT !.step = "COLLECT_CATEGORY", !.category = None,
                              !.subcategory = None, !.product = None,
                              !.constraints = None]
    [] state.step = "COLLECT_CONSTRAINTS" ->
         [state EXCEPT !.step = "COLLECT_PRODUCT", !.constraints = None]
    [] state.step = "GENERATE" -> [state EXCEPT !.step = "COLLECT_CONSTRAINTS"]
    [] OTHER -> [_empty_state EXCEPT !.step = "MENU"]

\* Variant: the spellings are matched as typed.
IsBack_CaseSensitive(text) == text # <<>> /\ text \in BACK_COMMANDS

\* text and text.lower() in BACK_COMMANDS
IsBack(text) == text # <<>> /\ Lower(text) \in BACK_COMMANDS

\* Variant: four characters are enough.
TooShort_Four(text) == Len(text) < 4

\* len(text) < 5
TooShort(text) == Len(text) < 5

\* 'skip'
S_skip ==
    <<"s","k","i","p">>

\* 'Write a full high-converting ad: headline + 5 bullets + short description + keywords + publishing tips.'
T_full_ad ==
    <<"W","r","i","t","e"," ","a"," ","f","u","l","l"," ","h","i","g","h","-","c","o",
      "n","v","e","r","t","i","n","g"," ","a","d",":"," ","h","e","a","d","l","i","n",
      "e"," ","+"," ","5"," ","b","u","l","l","e","t","s"," ","+"," ","s","h","o","r",
      "t"," ","d","e","s","c","r","i","p","t","i","o","n"," ","+"," ","k","e","y","w",
      "o","r","d","s"," ","+"," ","p","u","b","l","i","s","h","i","n","g"," ","t","i",
      "p","s",".">>

\* "Write ONLY a high-converting headline for this product. Output only 'Headline: ...'."
T_headline_only ==
    <<"W","r","i","t","e"," ","O","N","L","Y"," ","a"," ","h","i","g","h","-","c","o",
      "n","v","e","r","t","i","n","g"," ","h","e","a","d","l","i","n","e"," ","f","o",
      "r"," ","t","h","i","s"," ","p","r","o","d","u","c","t","."," ","O","u","t","p",
      "u","t"," ","o","n","l","y"," ","'","H","e","a","d","l","i","n","e",":"," ",".",
      ".",".","'",".">>

\* "Generate ONLY a list of 5 keywords/phrases that MUST be included in the headline. Output only 'Keywords: k1, k2, k3, k4, k5'."
T_keywords_5 ==
    <<"G","e","n","e","r","a","t","e"," ","O","N","L","Y"," ","a"," ","l","i","s","t",
      " ","o","f"," ","5"," ","k","e","y","w","o","r","d","s","/","p","h","r","a","s",
      "e","s"," ","t","h","a","t"," ","M","U","S","T"," ","b","e"," ","i","n","c","l",
      "u","d","e","d"," ","i","n"," ","t","h","e"," ","h","e","a","d","l","i","n","e",
      "."," ","O","u","t","p","u","t"," ","o","n","l","y"," ","'","K","e","y","w","o",
      "r","d","s",":"," ","k","1",","," ","k","2",","," ","k","3",","," ","k","4",",",
      " ","k","5","'",".">>

\* 'Write a full high-converting ad.'
T_default ==
    <<"W","r","i","t","e"," ","a"," ","f","u","l","l"," ","h","i","g","h","-","c","o",
      "n","v","e","r","t","i","n","g"," ","a","d",".">>

\* 'Constraints:'
S_Constraints ==
    <<"C","o","n","s","t","r","a","i","n","t","s",":">>

\* 'Platform: E-commerce'
S_Platform ==
    <<"P","l","a","t","f","o","r","m",":"," ","E","-","c","o","m","m","e","r","c","e">>

\* Variant: nothing clears the constraints.
IsSkip_Never(text) == FALSE

\* text.lower() == "skip"
IsSkip(text) == Lower(text) = S_skip

\* The instruction of an action, and the one for any other value.
action_instruction(action) ==
  CASE action = A_full_ad       -> T_full_ad
    [] action = A_headline_only -> T_headline_only
    [] action = A_keywords_5    -> T_keywords_5
    [] OTHER                    -> T_default

\* The request string built on entering GENERATE.
agent_prompt(new_state) ==
  LET cons_str  == IF new_state.constraints # <<>> THEN new_state.constraints
                   ELSE <<"N", "o", "n", "e">>
      cat_label == _category_label(new_state.category, new_state.subcategory)
      rag_category == _pinecone_id(new_state.category, new_state.subcategory)
  IN  Join(<< S_Product \o <<" ">> \o Str(new_state.product),
              S_Category \o <<" ">> \o Str(cat_label),
              S_RAG \o <<" ">> \o Str(rag_category),
              S_Constraints \o <<" ">> \o cons_str,
              S_Platform,
              S_Task \o <<" ">> \o action_instruction(new_state.action) >>,
           <<"\n">>)

\* Variant: the wizard starts over at Greeting.
Restart_AtGreeting(state) == _empty_state

\* Variant: the action survives the restart.
Restart_KeepsAction(state) ==
  [_empty_state EXCEPT !.step = "MENU", !.action = state.action]

\* {**_empty_state(), "step": "MENU"} after GENERATE
Restart(state) == [_empty_state EXCEPT !.step = "MENU"]

\* process_message: the new state and the payload, for step = state["step"]
\* and text = (user_input or "").strip().
Transition(state, step, text) ==
  CASE IsBack(text) -> <<_go_back(state), _payload_for_step(_go_back(state))>>
    [] ~IsBack(text) /\ step = "GREETING" ->
         << [state EXCEPT !.step = "MENU"],
            Payload(<<"U+1F44B Welcome to **Ad-Wise**! ... Choose an option:">>,
                    "menu", MENU_ACTIONS, FALSE, None) >>
    [] ~IsBack(text) /\ step = "MENU" ->
         IF text \notin Elements(MENU_ACTIONS)
           THEN << state,
                   Payload(<<"Please choose one of the options below:">>, "menu",
                           MENU_ACTIONS, FALSE, None) >>
           ELSE \* new_state = {**state, "step": "COLLECT_CATEGORY", "action": text}
                LET new_state == [state EXCEPT !.step = "COLLECT_CATEGORY",
                                               !.action = text]
                IN  <<new_state, _payload_for_step(new_state)>>
    [] ~IsBack(text) /\ step = "COLLECT_CATEGORY" ->
         IF text \notin _all_top_ids
           THEN << state,
                   Payload(<<"Please select a category from the list:">>,
                           "categories", _top_level_options, FALSE, None) >>
           ELSE LET new_state ==
                      IF _has_subcategories(text)
                        THEN [state EXCEPT !.category = text,
                                           !.step = "COLLECT_SUBCATEGORY"]
                        ELSE [state EXCEPT !.category = text,
                                           !.step = "COLLECT_PRODUCT",
                                           !.subcategory = None]
                IN  <<new_state, _payload_for_step(new_state)>>
    [] ~IsBack(text) /\ step = "COLLECT_SUBCATEGORY" ->
         IF text \notin Elements(_subcategory_options(state.category))
           THEN << state,
                   Payload(<<"Please select a sub-category:">>, "categories",
                           _subcategory_options(state.category), FALSE, None) >>
           ELSE LET new_state == [state EXCEPT !.step = "COLLECT_PRODUCT",
                                               !.subcategory = text]
                IN  <<new_state, _payload_for_step(new_state)>>
    [] ~IsBack(text) /\ step = "COLLECT_PRODUCT" ->
         IF TooShort(text)
           THEN << state,
                   Payload(<<"Please describe your product in a bit more detail:">>,
                           "input", None, FALSE, None) >>
           ELSE LET new_state == [state EXCEPT !.step = "COLLECT_CONSTRAINTS",
                                               !.product = text]
                IN  <<new_state, _payload_for_step(new_state)>>
    [] ~IsBack(text) /\ step = "COLLECT_CONSTRAINTS" ->
         LET constraints == IF IsSkip(text) THEN <<>> ELSE text
             new_state == [state EXCEPT !.step = "GENERATE",
                                        !.constraints = constraints]
         IN  << new_state,
                Payload(<<"U+2705 Got it! Generating output for _">>
                          \o Str(_category_label(new_state.category,
                                                 new_state.subcategory))
                          \o <<"_...">>,
                        "result", None, TRUE, agent_prompt(new_state)) >>
    [] ~IsBack(text) /\ step = "GENERATE" ->
         <<Restart(state), _payload_for_step(Restart(state))>>
    [] OTHER -> <<_empty_state, _payload_for_step(_empty_state)>>

process_message(user_input, state) ==
  LET entered == IF state.step = "" THEN _empty_state ELSE state
  IN  Transition(entered, entered.step, Strip(OrEmpty(user_input)))

(***************************************************************************)
(* AgentPipeline: run_agent                                                *)
(***************************************************************************)
VARIABLES
  user_prompt, category_filter, ENABLE_REPAIR,   \* arguments, configuration
  pc,                                            \* position in run_agent
  prompt, mode, search_query, ctx, condensed, allowed_terms, messages,
  llm_text, final_text, fixed, repaired,         \* locals
  steps, result,                                 \* the trace, the return value
  calls, visited, raised, consulted,             \* history
  fn, args, ret,                                 \* a function called on its own
  user_input, state_in, next_state, payload,     \* a turn of the conversation
  guided, turns, origin,                         \* the caller of the wizard
  passed, noted                                  \* what the caller holds

inputs  == <<user_prompt, category_filter, ENABLE_REPAIR>>
locals  == <<prompt, mode, search_query, ctx, condensed, allowed_terms,
             messages, llm_text, final_text, fixed, repaired>>
history == <<calls, visited, raised, consulted>>
unit    == <<fn, args, ret>>
caller  == <<guided, turns, origin, passed, noted>>
wizard  == <<user_input, state_in, next_state, payload, caller>>
vars    == <<inputs, pc, locals, steps, result, history, unit, wizard>>

\* No call of process_message: the record kept of a call holds its
\* arguments and what it returned.
NoCall == [input |-> None, state |-> NoState, next |-> NoState, payload |-> NoPayload]

\* No conversation is under way.
NoConversation ==
  /\ user_input = None /\ state_in = NoState /\ next_state = NoState
  /\ payload = NoPayload
  /\ guided = FALSE /\ turns = 0 /\ origin = ""
  /\ passed = NoState /\ noted = NoCall

\* All the ways the pending retrieve_examples(search_query, category_filter)
\* call can end.
RetrieverOutcomes ==
  { retrieve_examples(search_query, category_filter, p, d) :
      p \in PineconeStates, d \in LocalDbStates }

\* What retrieve_examples can hand back, and what it can raise.
RetrieverReturns ==
  { <<o.ctx, o.trace>> : o \in {x \in RetrieverOutcomes : x.kind = "return"} }
RetrieverFaults ==
  { o.fault : o \in {x \in RetrieverOutcomes : x.kind = "raise"} }

NoResult == [status |-> "none", error |-> None, response |-> None, steps |-> <<>>]

Result(status, error, response, trace) ==
  [status |-> status, error |-> error, response |-> response, steps |-> trace]

\* The state on entry to run_agent, for a request drawn from the set P.
Entry(P) ==
  /\ user_prompt \in P
  /\ category_filter \in CategoryFilters
  /\ ENABLE_REPAIR \in BOOLEAN
  /\ pc = "InputGuard"
  /\ prompt = None /\ mode = "unset" /\ search_query = None /\ ctx = None
  /\ condensed = None /\ allowed_terms = <<>> /\ messages = None
  /\ llm_text = None /\ final_text = None /\ fixed = None /\ repaired = FALSE
  /\ steps = <<>>
  /\ result = NoResult
  /\ calls = <<>> /\ visited = <<>> /\ raised = <<>> /\ consulted = FALSE
  /\ fn = "run_agent" /\ args = <<>> /\ ret = None
  /\ NoConversation

Init == Entry(Prompts)

\* Requests around the length limit, and one request that runs the pipeline
\* to its end.
GuardInit == Entry(BoundaryPrompts \cup {None, P_blank, P_wizard_headline})

\* Variant: the trace is overwritten by the new step instead of extended.
Trace_Overwrite(step) == <<step>>

\* steps.append(step)
Trace(step) == Append(steps, step)

\* return {...}: the invocation ends with this result.
Return(r) == result' = r /\ pc' = "done"

\* Variant: the boundary returns an empty trace.
Except_DropsTrace(e) ==
  /\ Return(Result("error", FormatError(e), None, <<>>))
  /\ raised' = <<e>>
  /\ UNCHANGED steps

\* Variant: the exception is recorded but the invocation carries on.
Except_Continues(e) ==
  /\ result' = Result("error", FormatError(e), None, steps)
  /\ pc' = pc
  /\ raised' = <<e>>
  /\ UNCHANGED steps

\* except Exception as e: the boundary of run_agent.
Except(e) ==
  /\ Return(Result("error", FormatError(e), None, steps))
  /\ raised' = <<e>>
  /\ UNCHANGED steps

\* Variant: the limit itself is already too long.
TooLong_OffByOne(p) == Len(p) >= MAX_PROMPT_CHARS

\* len(prompt) > MAX_PROMPT_CHARS
TooLong(p) == Len(p) > MAX_PROMPT_CHARS

InputGuardStep(p, m) ==
  [module   |-> "InputGuard",
   prompt   |-> [user_prompt |-> user_prompt],
   response |-> [empty |-> (p = <<>>), too_long |-> TooLong(p),
                 length |-> Len(p), max |-> MAX_PROMPT_CHARS, mode |-> m]]

InputGuard ==
  /\ pc = "InputGuard"
  /\ \E p \in {Strip(OrEmpty(user_prompt))} : \E m \in {_detect_mode(p)} :
     LET trace == Trace(InputGuardStep(p, m))
     IN  /\ prompt' = p
         /\ mode' = m
         /\ steps' = trace
         /\ IF p = <<>>
              THEN Return(Result("error", <<"Empty prompt">>, None, trace))
            ELSE IF TooLong(p)
              THEN Return(Result("error", <<"Prompt too long">>, None, trace))
            ELSE pc' = "IntentGuard" /\ UNCHANGED result
  /\ visited' = Append(visited, "InputGuard")
  /\ UNCHANGED <<wizard, unit, inputs, search_query, ctx, condensed, allowed_terms, messages,
                 llm_text, final_text, fixed, repaired, calls, raised, consulted>>

\* Variant: the Task: marker is not looked for.
FromWizard_NoTask(p) == Contains(p, S_RAG) \/ Contains(p, S_Category)

\* The markers of a structured (wizard) request, matched case-sensitively.
FromWizard(p) ==
  Contains(p, S_RAG) \/ Contains(p, S_Category) \/ Contains(p, S_Task)

IntentGuardStep(clarify, reason, from_wizard) ==
  [module   |-> "IntentGuard",
   prompt   |-> [user_prompt |-> prompt],
   response |-> [should_clarify |-> clarify, reason |-> reason,
                 from_wizard |-> from_wizard, mode |-> mode]]

IntentGuard ==
  /\ pc = "IntentGuard"
  /\ \E from_wizard \in {FromWizard(prompt)} :
     \E decision \in {IF from_wizard THEN <<FALSE, "">> ELSE _should_clarify(prompt)} :
     LET clarify == decision[1]
         reason  == decision[2]
         trace   == Trace(IntentGuardStep(clarify, reason, from_wizard))
     IN  /\ consulted' = ~from_wizard
         /\ steps' = trace
         /\ IF clarify
              THEN Return(Result("ok", None, _clarification_response(reason), trace))
              ELSE pc' = "Retrieve" /\ UNCHANGED result
  /\ visited' = Append(visited, "IntentGuard")
  /\ UNCHANGED <<wizard, unit, inputs, locals, calls, raised>>

\* search_query = _rewrite_query(prompt); retrieve_examples(...) is entered.
RetrieveCall ==
  /\ pc = "Retrieve"
  /\ search_query' = _rewrite_query(prompt)
  /\ calls' = Append(calls, "retrieve")
  /\ visited' = Append(visited, "Retrieve")
  /\ pc' = "RetrieveWait"
  /\ UNCHANGED <<wizard, unit, inputs, prompt, mode, ctx, condensed, allowed_terms, messages,
                 llm_text, final_text, fixed, repaired, steps, result, raised, consulted>>

RetrieverStep(c, trace) ==
  [module   |-> "AmazonInspirationRetriever",
   prompt   |-> [query |-> search_query, original_prompt |-> prompt,
                 category_filter |-> category_filter],
   response |-> [provider |-> trace.provider, matches |-> trace.matches,
                 note |-> trace.note, ctx_preview |-> Prefix(OrEmpty(c), 1200)]]

RetrieveReturn ==
  /\ pc = "RetrieveWait"
  /\ \E r \in RetrieverReturns :
       /\ ctx' = r[1]
       /\ steps' = Trace(RetrieverStep(r[1], r[2]))
  /\ pc' = "Condense"
  /\ UNCHANGED <<wizard, unit, inputs, prompt, mode, search_query, condensed, allowed_terms,
                 messages, llm_text, final_text, fixed, repaired, result, history>>

RetrieveRaise ==
  /\ pc = "RetrieveWait"
  /\ \E e \in RetrieverFaults : Except(e)
  /\ UNCHANGED <<wizard, unit, inputs, locals, calls, visited, consulted>>

Condense ==
  /\ pc = "Condense"
  /\ condensed' = _condense_ctx(prompt, ctx, 10)
  /\ visited' = Append(visited, "Condense")
  /\ pc' = "ExtractTerms"
  /\ UNCHANGED <<wizard, unit, inputs, prompt, mode, search_query, ctx, allowed_terms, messages,
                 llm_text, final_text, fixed, repaired, steps, result, calls,
                 raised, consulted>>

ExtractTerms ==
  /\ pc = "ExtractTerms"
  /\ allowed_terms' = _extract_allowed_terms(condensed, 12)
  /\ visited' = Append(visited, "ExtractTerms")
  /\ pc' = "AssemblePrompt"
  /\ UNCHANGED <<wizard, unit, inputs, prompt, mode, search_query, ctx, condensed, messages,
                 llm_text, final_text, fixed, repaired, steps, result, calls,
                 raised, consulted>>

AssemblePrompt ==
  /\ pc = "AssemblePrompt"
  /\ messages' = _build_messages(prompt, condensed, allowed_terms, mode)
  /\ visited' = Append(visited, "AssemblePrompt")
  /\ pc' = "Generate"
  /\ UNCHANGED <<wizard, unit, inputs, prompt, mode, search_query, ctx, condensed, allowed_terms,
                 llm_text, final_text, fixed, repaired, steps, result, calls,
                 raised, consulted>>

\* llm_generate_ad(system_msg, user_msg) is entered.
GenerateCall ==
  /\ pc = "Generate"
  /\ calls' = Append(calls, "generate")
  /\ visited' = Append(visited, "Generate")
  /\ pc' = "GenerateWait"
  /\ UNCHANGED <<wizard, unit, inputs, locals, steps, result, raised, consulted>>

AdCopyWriterStep(text) ==
  [module |-> "AdCopyWriter", prompt |-> messages, response |-> Meta(text)]

GenerateReturn ==
  /\ pc = "GenerateWait"
  /\ \E text \in GeneratorTexts :
       /\ llm_text' = text
       /\ steps' = Trace(AdCopyWriterStep(text))
  /\ pc' = "Validate"
  /\ UNCHANGED <<wizard, unit, inputs, prompt, mode, search_query, ctx, condensed, allowed_terms,
                 messages, final_text, fixed, repaired, result, history>>

GenerateRaise ==
  /\ pc = "GenerateWait"
  /\ \E e \in GeneratorFaults : Except(e)
  /\ UNCHANGED <<wizard, unit, inputs, locals, calls, visited, consulted>>

\* Variant: the configuration flag is not consulted.
NeedsRepair_IgnoresFlag(draft) == ~_is_valid_format(draft, mode)

\* ENABLE_REPAIR and not _is_valid_format(final_text, mode)
NeedsRepair(draft) == ENABLE_REPAIR /\ ~_is_valid_format(draft, mode)

\* final_text = (llm_text or "").strip(); the draft is validated.
Validate ==
  /\ pc = "Validate"
  /\ \E draft \in {Strip(OrEmpty(llm_text))} :
         /\ final_text' = draft
         /\ repaired' = FALSE
         /\ pc' = IF NeedsRepair(draft) THEN "Repair" ELSE "Compose"
  /\ visited' = Append(visited, "Validate")
  /\ UNCHANGED <<wizard, unit, inputs, prompt, mode, search_query, ctx, condensed, allowed_terms,
                 messages, llm_text, fixed, steps, result, calls, raised, consulted>>

\* _repair_format(prompt, final_text, mode) is entered.
RepairCall ==
  /\ pc = "Repair"
  /\ calls' = Append(calls, "repair")
  /\ visited' = Append(visited, "Repair")
  /\ pc' = "RepairWait"
  /\ UNCHANGED <<wizard, unit, inputs, locals, steps, result, raised, consulted>>

FormatRepairStep(f) ==
  [module   |-> "FormatRepair",
   prompt   |-> [system |-> "formatter", user |-> "(see above)", mode |-> mode],
   response |-> Meta(f)]

\* Variant: the repair output replaces the draft whether valid or not.
Repaired_Unchecked(f) == <<Strip(OrEmpty(f)), TRUE>>

\* Variant: the valid repair output is kept untrimmed.
Repaired_Untrimmed(f) ==
  IF _is_valid_format(f, mode) THEN <<f, TRUE>> ELSE <<final_text, repaired>>

\* if _is_valid_format(fixed, mode): final_text = fixed.strip(); repaired = True
\* The pair <<final_text, repaired>> after the repair output f is looked at.
Repaired(f) ==
  IF _is_valid_format(f, mode) THEN <<Strip(f), TRUE>> ELSE <<final_text, repaired>>

\* Variant: the repair is attempted again until its output is valid.
AfterRepair_Retry == "Validate"

\* The repair is attempted once: whatever comes back, the pipeline composes.
AfterRepair == "Compose"

RepairReturn ==
  /\ pc = "RepairWait"
  /\ \E f \in GeneratorTexts :
       /\ fixed' = f
       /\ steps' = Trace(FormatRepairStep(f))
       /\ final_text' = Repaired(f)[1]
       /\ repaired' = Repaired(f)[2]
  /\ pc' = AfterRepair
  /\ UNCHANGED <<wizard, unit, inputs, prompt, mode, search_query, ctx, condensed, allowed_terms,
                 messages, llm_text, result, history>>

RepairRaise ==
  /\ pc = "RepairWait"
  /\ \E e \in GeneratorFaults : Except(e)
  /\ UNCHANGED <<wizard, unit, inputs, locals, calls, visited, consulted>>

\* Variant: the composer reports on the draft.
FinalResponseComposerStep_OfDraft ==
  [module   |-> "FinalResponseComposer",
   prompt   |-> [repaired |-> repaired, mode |-> mode],
   response |-> [format_valid |-> _is_valid_format(Strip(OrEmpty(llm_text)), mode)]]

FinalResponseComposerStep ==
  [module   |-> "FinalResponseComposer",
   prompt   |-> [repaired |-> repaired, mode |-> mode],
   response |-> [format_valid |-> _is_valid_format(final_text, mode)]]

Compose ==
  /\ pc = "Compose"
  /\ LET trace == Trace(FinalResponseComposerStep)
     IN  /\ steps' = trace
         /\ Return(Result("ok", None, final_text, trace))
  /\ visited' = Append(visited, "Compose")
  /\ UNCHANGED <<wizard, unit, inputs, locals, calls, raised, consulted>>

Next ==
  \/ InputGuard
  \/ IntentGuard
  \/ RetrieveCall
  \/ RetrieveReturn
  \/ RetrieveRaise
  \/ Condense
  \/ ExtractTerms
  \/ AssemblePrompt
  \/ GenerateCall
  \/ GenerateReturn
  \/ GenerateRaise
  \/ Validate
  \/ RepairCall
  \/ RepairReturn
  \/ RepairRaise
  \/ Compose

Spec == Init /\ [][Next]_vars

GuardSpec == GuardInit /\ [][Next]_vars

\* run_agent is straight-line code: a step that can be taken is taken, and an
\* external call that was entered returns or raises.
Positions ==
  {"InputGuard", "IntentGuard", "Retrieve", "RetrieveWait", "Condense",
   "ExtractTerms", "AssemblePrompt", "Generate", "GenerateWait", "Validate",
   "Repair", "RepairWait", "Compose", "done"}
Advance == pc # "done" /\ pc' \in Positions /\ pc' # pc
LiveSpec == Init /\ [][Next]_vars /\ WF_pc(Advance)

(***************************************************************************)
(* The pure functions called on their own: fn is the function, args its    *)
(* arguments, ret what it returned (once pc = "return").                   *)
(***************************************************************************)
\* The words a request is put together from: at most MaxPhrases phrases for
\* the mode detector, at most MaxWords words for the clarification gate.
MaxPhrases == 3
MaxWords == 4
\* A keyword line has at most MaxItems comma-separated items.
MaxItems == 6

\* All sequences over S of length 0..n, and 1..n.
SeqsUpTo(S, n) == UNION {[1..k -> S] : k \in 0..n}
NonEmptySeqsUpTo(S, n) == UNION {[1..k -> S] : k \in 1..n}

\* 'Task:'
W_Task ==
    <<"T","a","s","k",":">>
\* 'write only'
W_write_only ==
    <<"w","r","i","t","e"," ","o","n","l","y">>
\* 'headline'
W_headline ==
    <<"h","e","a","d","l","i","n","e">>
\* 'Headline only'
W_Headline_only ==
    <<"H","e","a","d","l","i","n","e"," ","o","n","l","y">>
\* '5 keywords'
W_5_keywords ==
    <<"5"," ","k","e","y","w","o","r","d","s">>
\* 'Five keywords'
W_five_keywords ==
    <<"F","i","v","e"," ","k","e","y","w","o","r","d","s">>
\* 'keywords that must be included'
W_keywords_must ==
    <<"k","e","y","w","o","r","d","s"," ","t","h","a","t"," ","m","u","s","t"," ","b","e",
      " ","i","n","c","l","u","d","e","d">>
\* 'Full ad'
W_Full_ad ==
    <<"F","u","l","l"," ","a","d">>

ModePhrases ==
  {W_Task, W_write_only, W_headline, W_Headline_only, W_5_keywords,
   W_five_keywords, W_keywords_must, W_Full_ad}

\* Requests for _detect_mode: phrases separated by single spaces.
ModePrompts ==
  {None} \cup {Join(w, <<" ">>) : w \in SeqsUpTo(ModePhrases, MaxPhrases)}

\* 'a'
W_a ==
    <<"a">>
\* 'of'
W_of ==
    <<"o","f">>
\* 'zebras'
W_zebras ==
    <<"z","e","b","r","a","s">>
\* 'Write'
W_Write ==
    <<"W","r","i","t","e">>
\* 'backpack'
W_backpack ==
    <<"b","a","c","k","p","a","c","k">>
\* 'Product:'
W_Product ==
    <<"P","r","o","d","u","c","t",":">>

\* A one-letter word, a two-letter word, a word that is no hint, an intent
\* hint, a product hint, and the product marker (which holds the intent hint
\* "product").
ClarifyWords == {W_a, W_of, W_zebras, W_Write, W_backpack, W_Product}

\* Requests for _should_clarify: words separated by single spaces, bare or
\* surrounded by whitespace.
ClarifyPrompts ==
  {None, P_blank}
    \cup {Join(w, <<" ">>) : w \in SeqsUpTo(ClarifyWords, MaxWords)}
    \cup {Pad(k) \o P_red_mug \o Pad(k) : k \in 1..MaxPad}

\* 'Keywords: '
K_Keywords ==
    <<"K","e","y","w","o","r","d","s",":"," ">>
\* 'KEYWORDS:'
K_KEYWORDS ==
    <<"K","E","Y","W","O","R","D","S",":">>
\* 'Keys: '
K_Keys ==
    <<"K","e","y","s",":"," ">>
\* 'a'
K_a ==
    <<"a">>
\* 'bb'
K_bb ==
    <<"b","b">>
\* '\nmore'
K_more ==
    <<"\n","m","o","r","e">>

\* Keyword lines: a head, up to MaxItems items (empty, one character, two
\* characters) separated by ", ", and possibly a second line.
KeywordTexts ==
  {head \o Join(items, <<",", " ">>) \o tail :
     head \in {K_Keywords, K_KEYWORDS, K_Keys},
     items \in NonEmptySeqsUpTo({<<>>, K_a, K_bb}, MaxItems),
     tail \in {<<>>, K_more}}

\* 'Keywords: a, bb, ccc, dddd, eeeee'
K_spec_example ==
    <<"K","e","y","w","o","r","d","s",":"," ","a",","," ","b","b",","," ","c","c","c",",",
      " ","d","d","d","d",","," ","e","e","e","e","e">>
\* 'Keywords: a, b'
K_two_items ==
    <<"K","e","y","w","o","r","d","s",":"," ","a",","," ","b">>
\* 'Keywords: aa, bb, ccc, dddd, eeeee'
K_five_items ==
    <<"K","e","y","w","o","r","d","s",":"," ","a","a",","," ","b","b",","," ","c","c","c",
      ","," ","d","d","d","d",","," ","e","e","e","e","e">>
\* 'abc\ndef'
H_two_lines ==
    <<"a","b","c","\n","d","e","f">>

\* Headline texts: the label, what follows it directly, and a body whose
\* length is around the limits 3 and 200 or that runs over two lines; bare or
\* surrounded by whitespace.
HeadlineBodies ==
  {Fill(n) : n \in (0..4) \cup (199..(200 + MaxOver))} \cup {H_two_lines}
HeadlineTexts ==
  {Pad(k) \o head \o sep \o body \o Pad(k) :
     head \in {S_Headline, Lower(S_Headline)},
     sep \in {<<>>, <<" ">>, <<"\n">>, <<"\t">>},
     body \in HeadlineBodies,
     k \in 0..MaxPad}

\* 'Short description: s'
F_Short_line ==
    <<"S","h","o","r","t"," ","d","e","s","c","r","i","p","t","i","o","n",":"," ","s">>
\* 'Keywords: k'
F_Keywords_line ==
    <<"K","e","y","w","o","r","d","s",":"," ","k">>
\* 'Publishing tips: t'
F_Tips_line ==
    <<"P","u","b","l","i","s","h","i","n","g"," ","t","i","p","s",":"," ","t">>
\* 'Sure:\n'
F_preamble ==
    <<"S","u","r","e",":","\n">>
\* '\nextra'
F_extra_line ==
    <<"\n","e","x","t","r","a">>
\* ' more'
F_more ==
    <<" ","m","o","r","e">>

\* A full ad: the Headline label followed by hsep, n bullets each "-" followed
\* by bsep, the three closing sections (the first two swapped or not), between
\* a text before and a text after.
FullText(before, hsep, n, bsep, swapped, after) ==
  before
    \o Join(<<S_Headline \o hsep \o <<"a">>, S_Bullets>>
              \o [k \in 1..n |-> <<"-">> \o bsep \o <<"b">>]
              \o (IF swapped THEN <<F_Keywords_line, F_Short_line>>
                             ELSE <<F_Short_line, F_Keywords_line>>)
              \o <<F_Tips_line>>,
            <<"\n">>)
    \o after

FullTexts ==
  {FullText(before, hsep, n, bsep, swapped, after) :
     before \in {<<>>, F_preamble},
     hsep \in {<<>>, <<" ">>, <<"\n">>},
     n \in 4..(5 + MaxOver),
     bsep \in {<<>>, <<" ">>, <<"\n">>},
     swapped \in BOOLEAN,
     after \in {<<>>, F_extra_line, F_more}}

\* Texts with nothing in them, and one text of each format.
BlankTexts == {None, T_empty, T_blank, Pad(MaxPad)}
SampleTexts ==
  {T_junk, T_headline, T_headline_padded, T_keywords, T_full,
   T_full_4_bullets, K_spec_example, K_two_items, K_five_items}

\* The calls tried: the function and its arguments.
FnCalls ==
  {<<"_detect_mode", <<p>> >> : p \in ModePrompts}
    \cup {<<"_should_clarify", <<p>> >> : p \in ClarifyPrompts}
    \cup {<<"_is_valid_format", <<t, _MODE_KEYWORDS5>> >> : t \in KeywordTexts}
    \cup {<<"_is_valid_format", <<t, _MODE_HEADLINE>> >> : t \in HeadlineTexts}
    \cup {<<"_is_valid_format", <<t, _MODE_FULL>> >> : t \in FullTexts}
    \cup {<<"_is_valid_format", <<t, m>> >> :
            t \in BlankTexts \cup SampleTexts, m \in Modes}

\* No invocation of run_agent is under way.
Idle ==
  /\ user_prompt = None /\ category_filter = <<>> /\ ENABLE_REPAIR = FALSE
  /\ prompt = None /\ mode = "unset" /\ search_query = None /\ ctx = None
  /\ condensed = None /\ allowed_terms = <<>> /\ messages = None
  /\ llm_text = None /\ final_text = None /\ fixed = None /\ repaired = FALSE
  /\ steps = <<>>
  /\ result = NoResult
  /\ calls = <<>> /\ visited = <<>> /\ raised = <<>> /\ consulted = FALSE

FnInit ==
  /\ Idle /\ NoConversation
  /\ pc = "call"
  /\ ret = None
  /\ \E c \in FnCalls : fn = c[1] /\ args = c[2]

DetectMode ==
  /\ pc = "call" /\ fn = "_detect_mode"
  /\ \E p \in {args[1]} : ret' = _detect_mode(p)
  /\ pc' = "return"
  /\ UNCHANGED <<wizard, fn, args, inputs, locals, steps, result, history>>

ShouldClarify ==
  /\ pc = "call" /\ fn = "_should_clarify"
  /\ \E p \in {args[1]} : ret' = _should_clarify(p)
  /\ pc' = "return"
  /\ UNCHANGED <<wizard, fn, args, inputs, locals, steps, result, history>>

IsValidFormat ==
  /\ pc = "call" /\ fn = "_is_valid_format"
  /\ \E t \in {args[1]} : \E m \in {args[2]} : ret' = _is_valid_format(t, m)
  /\ pc' = "return"
  /\ UNCHANGED <<wizard, fn, args, inputs, locals, steps, result, history>>

FnNext ==
  \/ DetectMode
  \/ ShouldClarify
  \/ IsValidFormat

FnSpec == FnInit /\ [][FnNext]_vars

(***************************************************************************)
(* The query rewriter, the context ranker and the term extractor called on *)
(* their own.                                                              *)
(***************************************************************************)
\* A raw block has at most MaxCtxLines lines, a request at most MaxQueryLines
\* lines, a condensed context at most MaxTermWords words.
MaxCtxLines == 3
MaxQueryLines == 3
MaxTermWords == 4

\* max_lines and max_terms as run_agent passes them.
DefaultMaxLines == 10
DefaultMaxTerms == 12

\* The k-th of 26 distinct three-letter words: 'aaa', 'bbb', ...
Word(k) == <<LowerChars[k], LowerChars[k], LowerChars[k]>>
\* The words from .. to, separated by sep, each after the text before.
WordList(from, to, before, sep) ==
  Join([k \in 1..(to - from + 1) |-> before \o Word(from + k - 1)], sep)

\* '- Red Mug'
C_Red_Mug ==
    <<"-"," ","R","e","d"," ","M","u","g">>

\* '- red mug'
C_red_mug ==
    <<"-"," ","r","e","d"," ","m","u","g">>

\* '  - Blue mug'
C_Blue_mug ==
    <<" "," ","-"," ","B","l","u","e"," ","m","u","g">>

\* '-  Steel mug '
C_Steel_mug ==
    <<"-"," "," ","S","t","e","e","l"," ","m","u","g"," ">>

\* '[Category: mugs]'
C_header ==
    <<"[","C","a","t","e","g","o","r","y",":"," ","m","u","g","s","]">>

\* '- '
C_dash ==
    <<"-"," ">>

\* 'red mug'
R_red_mug ==
    <<"r","e","d"," ","m","u","g">>

\* 'the BLUE mug'
R_blue_mug ==
    <<"t","h","e"," ","B","L","U","E"," ","m","u","g">>


\* Lines of a raw block: candidates that differ in case only, an indented
\* one, one with inner padding, and a header.
CtxLines == {C_Red_Mug, C_red_mug, C_Blue_mug, C_Steel_mug, C_header}

\* Raw blocks for _condense_ctx: up to MaxCtxLines lines; blocks of candidates
\* and of other lines around max_lines; a block around the 1200 characters
\* of the fallback; no block, and a block whose only candidate is empty.
CtxBlocks ==
  {None, C_dash}
    \cup {Join(l, <<"\n">>) : l \in SeqsUpTo(CtxLines, MaxCtxLines)}
    \cup {WordList(1, n, <<"-", " ">>, <<"\n">>) :
            n \in (DefaultMaxLines - 1)..(DefaultMaxLines + 1 + MaxOver)}
    \cup {WordList(1, n, <<>>, <<"\n">>) :
            n \in (DefaultMaxLines - 1)..(DefaultMaxLines + 1 + MaxOver)}
    \cup {Fill(1200 + k) : k \in 0..MaxOver}

\* Requests the blocks are ranked against.
RankPrompts == {None, R_red_mug, R_blue_mug}

\* 'Category: Home Kitchen'
Q_Category ==
    <<"C","a","t","e","g","o","r","y",":"," ","H","o","m","e"," ","K","i","t","c","h",
      "e","n">>

\* 'Category: '
Q_Category_empty ==
    <<"C","a","t","e","g","o","r","y",":"," ">>

\* 'Product: Red Mug 350ml'
Q_Product ==
    <<"P","r","o","d","u","c","t",":"," ","R","e","d"," ","M","u","g"," ","3","5","0",
      "m","l">>

\* 'Task: Write the travel ad'
Q_Task ==
    <<"T","a","s","k",":"," ","W","r","i","t","e"," ","t","h","e"," ","t","r","a","v",
      "e","l"," ","a","d">>

\* 'please make it'
Q_free ==
    <<"p","l","e","a","s","e"," ","m","a","k","e"," ","i","t">>

\* '\nProduct: '
Q_Product_key ==
    <<"\n","P","r","o","d","u","c","t",":"," ">>


\* Lines of a request: the two keyed lines, a keyed line without a value, a
\* line of another key, and a line that holds no significant token.
QueryLines == {Q_Category, Q_Category_empty, Q_Product, Q_Task, Q_free}

\* Requests for _rewrite_query: up to MaxQueryLines lines, and requests of more
\* than 12 tokens, free-form and keyed.
QueryPrompts ==
  {None}
    \cup {Join(l, <<"\n">>) : l \in SeqsUpTo(QueryLines, MaxQueryLines)}
    \cup {WordList(1, 12 + k, <<>>, <<" ">>) : k \in 0..MaxOver}
    \cup {Q_Category_empty \o WordList(1, 6, <<>>, <<" ">>)
            \o Q_Product_key \o WordList(7, 12 + k, <<>>, <<" ">>) : k \in 0..MaxOver}

\* 'mug'
A_mug ==
    <<"m","u","g">>

\* 'Mug'
A_Mug ==
    <<"M","u","g">>

\* 'steel'
A_steel ==
    <<"s","t","e","e","l">>

\* 'premium'
A_premium ==
    <<"p","r","e","m","i","u","m">>

\* '-eco-cup'
A_eco_cup ==
    <<"-","e","c","o","-","c","u","p">>

\* 'ab ab cd-'
A_short ==
    <<"a","b"," ","a","b"," ","c","d","-">>

\* 'steel mug Mug steel MUG'
A_freq ==
    <<"s","t","e","e","l"," ","m","u","g"," ","M","u","g"," ","s","t","e","e","l"," ",
      "M","U","G">>


\* Words of a condensed context: a term in two casings, another term, a
\* stopword, and a hyphenated term behind a hyphen.
TermWords == {A_mug, A_Mug, A_steel, A_premium, A_eco_cup}

\* Condensed contexts for _extract_allowed_terms: up to MaxTermWords words; no
\* context; words too short to be terms; a term seen later but more often;
\* and more than max_terms terms, each twice.
TermTexts ==
  {None, A_short, A_freq}
    \cup {Join(w, <<" ">>) : w \in SeqsUpTo(TermWords, MaxTermWords)}
    \cup {WordList(1, n, <<>>, <<" ">>) \o <<"\n">> \o WordList(1, n, <<>>, <<" ">>) :
            n \in DefaultMaxTerms..(DefaultMaxTerms + 1 + MaxOver)}

\* The calls tried: the function and its arguments.
CtxCalls ==
  {<<"_rewrite_query", <<p>> >> : p \in QueryPrompts}
    \cup {<<"_condense_ctx", <<p, c, n>> >> :
            p \in RankPrompts, c \in CtxBlocks, n \in {2, DefaultMaxLines}}
    \cup {<<"_extract_allowed_terms", <<c, n>> >> :
            c \in TermTexts, n \in {1, DefaultMaxTerms}}

CtxInit ==
  /\ Idle /\ NoConversation
  /\ pc = "call"
  /\ ret = None
  /\ \E c \in CtxCalls : fn = c[1] /\ args = c[2]

RewriteQuery ==
  /\ pc = "call" /\ fn = "_rewrite_query"
  /\ \E p \in {args[1]} : ret' = _rewrite_query(p)
  /\ pc' = "return"
  /\ UNCHANGED <<wizard, fn, args, inputs, locals, steps, result, history>>

CondenseCtx ==
  /\ pc = "call" /\ fn = "_condense_ctx"
  /\ \E p \in {args[1]} : \E c \in {args[2]} : \E n \in {args[3]} :
       ret' = _condense_ctx(p, c, n)
  /\ pc' = "return"
  /\ UNCHANGED <<wizard, fn, args, inputs, locals, steps, result, history>>

ExtractAllowedTerms ==
  /\ pc = "call" /\ fn = "_extract_allowed_terms"
  /\ \E c \in {args[1]} : \E n \in {args[2]} :
       ret' = _extract_allowed_terms(c, n)
  /\ pc' = "return"
  /\ UNCHANGED <<wizard, fn, args, inputs, locals, steps, result, history>>

CtxNext ==
  \/ RewriteQuery
  \/ CondenseCtx
  \/ ExtractAllowedTerms

CtxSpec == CtxInit /\ [][CtxNext]_vars

(***************************************************************************)
(* A conversation: on every turn the caller sends an input together with   *)
(* the state it holds (state_in) and keeps the state that comes back       *)
(* (next_state) for the next turn.  pc is "chat" when the caller is about   *)
(* to send and "reply" when the reply has come back.                       *)
(***************************************************************************)
\* '  '
I_blank ==
    <<" "," ">>

\* ' headline_only '
I_headline_padded ==
    <<" ","h","e","a","d","l","i","n","e","_","o","n","l","y"," ">>

\* 'red ceramic mug, 350ml'
I_product ==
    <<"r","e","d"," ","c","e","r","a","m","i","c"," ","m","u","g",","," ","3","5","0",
      "m","l">>

\* 'mugs'
I_mugs ==
    <<"m","u","g","s">>

\* ' SKIP '
I_SKIP ==
    <<" ","S","K","I","P"," ">>

\* 'no emojis'
I_no_emojis ==
    <<"n","o"," ","e","m","o","j","i","s">>

\* ' Go Back '
I_Go_Back ==
    <<" ","G","o"," ","B","a","c","k"," ">>


\* What the caller may send on a turn: nothing; an action id, bare or padded;
\* the id of a category with and of one without sub-options; a sub id of the
\* first and one of another category; a product text and one too short; the
\* word skip in two casings and a constraint; every back spelling, and one
\* in another casing with padding.
WizardInputs ==
  {None, I_blank, A_full_ad, I_headline_padded, A_keywords_5,
   ID_electronics, ID_home_kitchen, ID_computers, ID_beauty,
   I_product, I_mugs, S_skip, I_SKIP, I_no_emojis, I_Go_Back}
    \cup BACK_COMMANDS

\* The caller starts without a state or with the empty state.
WizardInit ==
  /\ Idle
  /\ user_input = None /\ state_in = NoState /\ payload = NoPayload
  /\ next_state \in {NoState, _empty_state}
  /\ guided = FALSE /\ turns = 0 /\ origin = ""
  /\ passed = NoState /\ noted = NoCall
  /\ pc = "chat"
  /\ fn = "process_message" /\ args = <<>> /\ ret = None

\* One turn: new_state, payload = process_message(inp.prompt, inp.state)
ProcessMessage ==
  /\ pc = "chat"
  /\ \E inp \in WizardInputs :
       \E r \in {process_message(inp, next_state)} :
         /\ user_input' = inp
         /\ state_in' = next_state
         /\ next_state' = r[1]
         /\ payload' = r[2]
  /\ pc' = "reply"
  /\ UNCHANGED <<caller, unit, inputs, locals, steps, result, history>>

\* The caller keeps "next_state" of the reply and nothing else.
NextTurn ==
  /\ pc = "reply"
  /\ pc' = "chat"
  /\ user_input' = None /\ state_in' = NoState /\ payload' = NoPayload
  /\ UNCHANGED <<next_state, caller, unit, inputs, locals, steps, result, history>>

WizardNext ==
  \/ ProcessMessage
  \/ NextTurn

WizardSpec == WizardInit /\ [][WizardNext]_vars

(***************************************************************************)
(* A caller who follows the prompts.  Up to some turn the caller sends      *)
(* anything; from then on (guided) every input is one the step asks for and *)
(* no back command.  turns counts the guided calls since the caller began   *)
(* to follow the prompts, or since the last result; origin is the step the  *)
(* count began at.                                                         *)
(***************************************************************************)
\* A guided caller is followed for at most MaxTurns calls without a result.
MaxTurns == 7

\* The inputs the step of a state asks for: anything in Greeting, in
\* CollectConstraints and after a result; an offered id in Menu,
\* CollectCategory and CollectSubcategory; 5 or more characters in
\* CollectProduct.  A back command is never among them.
ValidInputs(state) ==
  {inp \in WizardInputs :
     \E text \in {Strip(OrEmpty(inp))} :
       /\ Lower(text) \notin BACK_COMMANDS
       /\ CASE state.step = "MENU" -> text \in Elements(MENU_ACTIONS)
            [] state.step = "COLLECT_CATEGORY" -> text \in _all_top_ids
            [] state.step = "COLLECT_SUBCATEGORY" ->
                 text \in Elements(_subcategory_options(state.category))
            [] state.step = "COLLECT_PRODUCT" -> Len(text) >= 5
            [] OTHER -> TRUE}

\* The caller begins to follow the prompts.
Guide ==
  /\ pc = "chat" /\ ~guided
  /\ guided' = TRUE /\ turns' = 0
  /\ origin' = next_state.step
  /\ UNCHANGED <<user_input, state_in, next_state, payload, passed, noted, pc,
                 unit, inputs, locals, steps, result, history>>

\* A turn of a caller who does not follow the prompts (yet).
FreeMessage == ~guided /\ ProcessMessage

\* A turn of a guided caller.
GuidedMessage ==
  /\ pc = "chat" /\ guided /\ turns < MaxTurns
  /\ \E inp \in ValidInputs(next_state) :
       \E r \in {process_message(inp, next_state)} :
         /\ user_input' = inp
         /\ state_in' = next_state
         /\ next_state' = r[1]
         /\ payload' = r[2]
  /\ turns' = IF next_state.step = "GENERATE" THEN 1 ELSE turns + 1
  /\ origin' = IF next_state.step = "GENERATE" THEN "GENERATE" ELSE origin
  /\ pc' = "reply"
  /\ UNCHANGED <<guided, passed, noted, unit, inputs, locals, steps, result,
                 history>>

GuidedNext ==
  \/ FreeMessage
  \/ Guide
  \/ GuidedMessage
  \/ NextTurn

GuidedSpec == WizardInit /\ [][GuidedNext]_vars

(***************************************************************************)
(* A caller who keeps snapshots.  The state is a dict the caller owns and  *)
(* hands to process_message; passed is that dict as it is after the call.  *)
(* The caller may note one call (its arguments and what came back) and     *)
(* later roll back: send the noted state with the noted input again, after *)
(* any other calls.                                                        *)
(***************************************************************************)
\* What this caller sends: an action, a category, a product, a text too
\* short for a product, the back button.
ReplayInputs == {A_full_ad, ID_home_kitchen, I_product, I_mugs, B_back}

\* Variant: the wizard keeps the conversation itself and answers from the
\* state it returned last.
Reply_Session(inp, st) == process_message(inp, next_state)

\* new_state, payload = process_message(user_input, state): nothing but the
\* two arguments (and the constants of the module) is read.
Reply(inp, st) == process_message(inp, st)

\* Variant: the new fields are written into the dict passed in.
Passed_Patched(state, new_state) == new_state

\* The dict passed in, after the call.  process_message and _go_back build
\* every state they return with a dict display ({**state, ...},
\* {**_empty_state(), ...}) or return `state` itself; the item assignments
\* new_state["step"] = ..., new_state["subcategory"] = None write to the dict
\* made by the display just before.  Nothing writes to `state`.
Passed(state, new_state) == state

\* One call of process_message with this input and this state.
Call(inp, st) ==
  \E r \in {Reply(inp, st)} :
    /\ user_input' = inp
    /\ state_in' = st
    /\ next_state' = r[1]
    /\ payload' = r[2]
    /\ passed' = Passed(st, r[1])
    /\ pc' = "reply"
    /\ UNCHANGED <<noted, guided, turns, origin, unit, inputs, locals, steps,
                   result, history>>

\* The caller sends an input with the state of the last reply.
Send ==
  /\ pc = "chat"
  /\ \E inp \in ReplayInputs : Call(inp, next_state)

\* The caller notes the call that has just returned.
Note ==
  /\ pc = "reply" /\ noted = NoCall
  /\ noted' = [input |-> user_input, state |-> state_in, next |-> next_state,
               payload |-> payload]
  /\ UNCHANGED <<user_input, state_in, next_state, payload, passed, guided,
                 turns, origin, pc, unit, inputs, locals, steps, result, history>>

\* The caller rolls back: the noted state is sent again with the noted input.
Replay ==
  /\ pc = "chat" /\ noted # NoCall
  /\ Call(noted.input, noted.state)

\* The caller keeps the state of the reply (and what it has noted).
Keep ==
  /\ pc = "reply"
  /\ pc' = "chat"
  /\ user_input' = None /\ state_in' = NoState /\ payload' = NoPayload
  /\ passed' = NoState
  /\ UNCHANGED <<next_state, noted, guided, turns, origin, unit, inputs, locals,
                 steps, result, history>>

ReplayNext ==
  \/ Send
  \/ Note
  \/ Replay
  \/ Keep

ReplaySpec == WizardInit /\ [][ReplayNext]_vars

(***************************************************************************)
(* The /api/chat handler (main.py).  The caller is the wizard page: it     *)
(* opens the conversation without a state, presses one of the buttons the  *)
(* step offers or the back button, types into the input box of the product *)
(* and constraints steps, and sends the state of the last reply back.  pc  *)
(* is "chat" when the page is about to send, a position of run_agent while *)
(* the handler runs the pipeline, and "reply" when the reply is out.       *)
(***************************************************************************)
\* 'mug, 350ml\nRAG Category Filter: pets'
I_filter_line ==
    <<"m","u","g",","," ","3","5","0","m","l","\n","R","A","G"," ","C","a","t","e","g",
      "o","r","y"," ","F","i","l","t","e","r",":"," ","p","e","t","s">>

\* 'bold headline only'
I_headline_note ==
    <<"b","o","l","d"," ","h","e","a","d","l","i","n","e"," ","o","n","l","y">>

\* The buttons the page presses: the three actions, a category without and
\* one with sub-options, and a sub-option.
ChatChoices ==
  {A_full_ad, A_headline_only, A_keywords_5, ID_home_kitchen, ID_beauty_health,
   ID_beauty}

\* What is typed into the box of the product step: a product on one line, a
\* product text of two lines, and a text of 4 characters.
ProductTexts == {I_product, I_filter_line, S_skip}

\* What is typed into the box of the constraints step: a note that speaks of
\* the headline, and the word skip.
ConstraintTexts == {I_headline_note, S_skip}

\* What the page can send in a state: the first message; an offered button,
\* the back button or stray text in the steps with buttons; typed text or
\* the back button in the steps with an input box; after a result the page
\* starts over.
ChatInputs(state) ==
  CASE state.step \in {"", "GREETING"} -> {None}
    [] state.step \in {"MENU", "COLLECT_CATEGORY", "COLLECT_SUBCATEGORY"} ->
         (Elements(_payload_for_step(state).options) \cap ChatChoices)
           \cup {B___back, I_mugs}
    [] state.step = "COLLECT_PRODUCT" -> ProductTexts \cup {B___back}
    [] state.step = "COLLECT_CONSTRAINTS" -> ConstraintTexts \cup {B___back}
    [] OTHER -> {None}

ChatInit ==
  /\ user_prompt = None /\ category_filter = <<>> /\ ENABLE_REPAIR \in BOOLEAN
  /\ prompt = None /\ mode = "unset" /\ search_query = None /\ ctx = None
  /\ condensed = None /\ allowed_terms = <<>> /\ messages = None
  /\ llm_text = None /\ final_text = None /\ fixed = None /\ repaired = FALSE
  /\ steps = <<>>
  /\ result = NoResult
  /\ calls = <<>> /\ visited = <<>> /\ raised = <<>> /\ consulted = FALSE
  /\ NoConversation
  /\ pc = "chat"
  /\ fn = "chat" /\ args = <<>> /\ ret = None

\* Variant: the pipeline is run for every payload.
Invokes_Always(p) == TRUE

\* if payload.get("ready"):
Invokes(p) == p.ready

\* Variant: the filter is taken from the last matching line.
rag_cat_LastLine(request) ==
  LET lines == SplitLines(request)
      hits  == {k \in 1..Len(lines) : StartsWith(lines[k], S_RAG)}
  IN  IF hits = {} THEN <<>> ELSE Strip(AfterColon(lines[Max(hits)]))

\* The value after the colon of the first line of the request that starts
\* with 'RAG Category Filter:', trimmed; empty when there is no such line.
rag_cat(request) ==
  LET lines == SplitLines(request)
      hits  == {k \in 1..Len(lines) : StartsWith(lines[k], S_RAG)}
  IN  IF hits = {} THEN <<>> ELSE Strip(AfterColon(lines[Min(hits)]))

\* chat(inp) up to its call of run_agent, or to its return when the payload
\* is not ready: process_message, then run_agent(agent_prompt,
\* category_filter=rag_cat) is entered.
Chat ==
  /\ pc = "chat"
  /\ \E inp \in ChatInputs(next_state) :
       \E r \in {process_message(inp, next_state)} :
         /\ user_input' = inp
         /\ state_in' = next_state
         /\ next_state' = r[1]
         /\ payload' = r[2]
         /\ IF Invokes(r[2])
              THEN /\ user_prompt' = OrEmpty(r[2].agent_prompt)
                   /\ category_filter' = rag_cat(OrEmpty(r[2].agent_prompt))
                   /\ pc' = "InputGuard"
              ELSE /\ pc' = "reply"
                   /\ UNCHANGED <<user_prompt, category_filter>>
  /\ UNCHANGED <<ENABLE_REPAIR, caller, unit, locals, steps, result, history>>

\* run_agent has returned: the handler puts its result and the new state
\* into the reply.
ChatReturn ==
  /\ pc = "done"
  /\ pc' = "reply"
  /\ UNCHANGED <<wizard, unit, inputs, locals, steps, result, history>>

\* The reply of the handler, once it is out.
ChatReply ==
  IF Invokes(payload)
    THEN [status |-> result.status, error |-> result.error,
          response |-> result.response, steps |-> result.steps,
          next_state |-> next_state, ui_type |-> "result", options |-> None,
          message |-> payload.message, agent_prompt |-> user_prompt]
    ELSE [status |-> "ok", error |-> None, response |-> payload.message,
          steps |-> << [module   |-> "ConversationManager",
                        prompt   |-> [user_input |-> user_input, state |-> state_in],
                        response |-> [next_step |-> next_state.step,
                                      ui_type |-> payload.ui_type]] >>,
          next_state |-> next_state, ui_type |-> payload.ui_type,
          options |-> payload.options, message |-> payload.message,
          agent_prompt |-> None]

\* The page keeps "next_state" of the reply; nothing of the handler's call
\* is left.
ChatNextTurn ==
  /\ pc = "reply"
  /\ pc' = "chat"
  /\ user_input' = None /\ state_in' = NoState /\ payload' = NoPayload
  /\ user_prompt' = None /\ category_filter' = <<>>
  /\ prompt' = None /\ mode' = "unset" /\ search_query' = None /\ ctx' = None
  /\ condensed' = None /\ allowed_terms' = <<>> /\ messages' = None
  /\ llm_text' = None /\ final_text' = None /\ fixed' = None
  /\ repaired' = FALSE
  /\ steps' = <<>>
  /\ result' = NoResult
  /\ calls' = <<>> /\ visited' = <<>> /\ raised' = <<>> /\ consulted' = FALSE
  /\ UNCHANGED <<next_state, ENABLE_REPAIR, caller, unit>>

ChatNext ==
  \/ Chat
  \/ Next
  \/ ChatReturn
  \/ ChatNextTurn

ChatSpec == ChatInit /\ [][ChatNext]_vars

(***************************************************************************)
(* Properties of run_agent.                                                *)
(***************************************************************************)
Done == pc = "done"

Count(seq, x) == Cardinality({i \in 1..Len(seq) : seq[i] = x})
Has(seq, x) == \E i \in 1..Len(seq) : seq[i] = x
Modules(trace) == [i \in 1..Len(trace) |-> trace[i].module]

\* The draft as the pipeline keeps it.
Draft == Strip(OrEmpty(llm_text))
\* The draft call has returned; the repair call has returned.
DraftReturned == Has(visited, "Validate")
RepairReturned == Has(Modules(steps), "FormatRepair")
\* The step the composer appended to the returned trace.
ComposerStep == result.steps[Len(result.steps)]
Composed == Done /\ Has(visited, "Compose")

\* C1: in one invocation the generator is called at most twice, once for the
\* draft and at most once for repair; the repair call is made if and only if
\* ENABLE_REPAIR is set and the trimmed draft fails _is_valid_format for the
\* detected mode; it is never made when the draft call raised, and no call
\* follows a repair, whatever its output.
C1_RepairAtMostOnce ==
  /\ Count(calls, "generate") <= 1
  /\ Count(calls, "repair") <= 1
  /\ Has(calls, "repair") =>
       /\ calls = <<"retrieve", "generate", "repair">>
       /\ DraftReturned
       /\ ENABLE_REPAIR
       /\ ~_is_valid_format(Draft, mode)
  /\ (Done /\ DraftReturned) =>
       (Has(calls, "repair") <=> (ENABLE_REPAIR /\ ~_is_valid_format(Draft, mode)))
  /\ (Done /\ ~DraftReturned) => ~Has(calls, "repair")

\* A run whose repair output was still invalid and that ended after it.
C1_Witness ==
  /\ Done
  /\ calls = <<"retrieve", "generate", "repair">>
  /\ RepairReturned
  /\ ~_is_valid_format(fixed, mode)
  /\ result.status = "ok"

\* C2 as stated: in HeadlineOnly mode a draft that fails validation triggers
\* exactly one repair call, and if the repair output fails too the result is
\* status ok with the unrepaired draft and a format_valid = false entry.
C2_Original ==
  (Done /\ mode = _MODE_HEADLINE /\ DraftReturned /\ ~_is_valid_format(Draft, mode)) =>
    /\ Count(calls, "repair") = 1
    /\ (RepairReturned /\ ~_is_valid_format(fixed, mode)) =>
         /\ result.status = "ok"
         /\ result.response = Draft
         /\ ComposerStep.response.format_valid = FALSE

\* C2 (amended): in HeadlineOnly mode a draft that fails validation triggers
\* exactly one repair call when ENABLE_REPAIR is set and none when it is not;
\* if no repair is made, or its output fails validation too, the result is
\* status ok, the response is the trimmed draft, and the trace ends with a
\* step recording format_valid = false.
C2_HeadlineRepairWhenEnabled ==
  (Done /\ mode = _MODE_HEADLINE /\ DraftReturned /\ ~_is_valid_format(Draft, mode)) =>
    /\ Count(calls, "repair") = (IF ENABLE_REPAIR THEN 1 ELSE 0)
    /\ (~ENABLE_REPAIR \/ (RepairReturned /\ ~_is_valid_format(fixed, mode))) =>
         /\ result.status = "ok"
         /\ result.response = Draft
         /\ ComposerStep.module = "FinalResponseComposer"
         /\ ComposerStep.response.format_valid = FALSE

\* HeadlineOnly, repair enabled, draft and repair output both invalid.
C2_Witness ==
  /\ Done
  /\ mode = _MODE_HEADLINE
  /\ ENABLE_REPAIR
  /\ llm_text = T_junk
  /\ RepairReturned
  /\ fixed = T_keywords
  /\ result.response = T_junk

\* C3: when the repair output passes validation the response is the trimmed
\* repair output and the composer step records repaired = true and
\* format_valid = true; when it fails, the response is the trimmed draft and
\* the step records repaired = false.
C3_RepairReplacesDraft ==
  (Composed /\ RepairReturned) =>
    IF _is_valid_format(fixed, mode)
      THEN /\ result.response = Strip(fixed)
           /\ ComposerStep.prompt.repaired = TRUE
           /\ ComposerStep.response.format_valid = TRUE
      ELSE /\ result.response = Draft
           /\ ComposerStep.prompt.repaired = FALSE

\* A padded valid repair output replaced an invalid draft.
C3_Witness ==
  /\ Composed
  /\ llm_text = T_junk
  /\ fixed = T_headline_padded
  /\ result.response = T_headline
  /\ ComposerStep.prompt.repaired = TRUE

\* C4 as stated: once the draft call has returned, the result is status ok
\* with the draft or its valid repair and a format_valid flag in the trace,
\* whatever happens during the repair attempt.
C4_BestEffortAfterDraft ==
  (Done /\ DraftReturned) =>
    /\ result.status = "ok"
    /\ result.response # None
    /\ result.response \in {Draft, Strip(OrEmpty(fixed))}
    /\ ComposerStep.module = "FinalResponseComposer"
    /\ ComposerStep.response.format_valid \in BOOLEAN

\* The module names of the steps appended before a call raised.
TraceBefore(call) ==
  IF call = "retrieve" THEN <<"InputGuard", "IntentGuard">>
  ELSE IF call = "generate"
    THEN <<"InputGuard", "IntentGuard", "AmazonInspirationRetriever">>
  ELSE <<"InputGuard", "IntentGuard", "AmazonInspirationRetriever", "AdCopyWriter">>

\* C5: when the retriever, the draft call or the repair call raises, the
\* invocation returns one result with status error, error "<kind>: <message>",
\* response null and exactly the steps appended before the raise, unaltered;
\* no external call follows the raise.
C5_RaiseKeepsTrace ==
  /\ [](raised # <<>> =>
          /\ Done
          /\ result.status = "error"
          /\ result.error = <<raised[1].kind, ": ", raised[1].msg>>
          /\ result.response = None
          /\ result.steps = steps
          /\ Modules(result.steps) = TraceBefore(calls[Len(calls)]))
  /\ [][/\ (raised = <<>> /\ raised' # <<>>) =>
             (result = NoResult /\ result'.steps = steps /\ calls' = calls)
        /\ raised # <<>> => (calls' = calls /\ result' = result)]_vars

\* The repair call raised after four steps had been appended.
C5_Witness ==
  /\ raised # <<>>
  /\ calls = <<"retrieve", "generate", "repair">>
  /\ Len(result.steps) = 4
  /\ result.status = "error"

\* C6 as stated: every state passed through appends exactly one step, so a
\* returned trace has as many steps as states were traversed.
C6_Original ==
  (Done /\ raised = <<>>) => Len(result.steps) = Len(visited)

\* The module whose step a pipeline state appends, "" for a state that
\* appends none.
StepModule(state) ==
  CASE state = "InputGuard"  -> "InputGuard"
    [] state = "IntentGuard" -> "IntentGuard"
    [] state = "Retrieve"    -> "AmazonInspirationRetriever"
    [] state = "Generate"    -> "AdCopyWriter"
    [] state = "Repair"      -> "FormatRepair"
    [] state = "Compose"     -> "FinalResponseComposer"
    [] OTHER                 -> ""

\* The modules of the states traversed, those that append a step only.
StepModules(states) ==
  LET named == [i \in 1..Len(states) |-> StepModule(states[i])]
  IN  SelectIdx(named, {i \in 1..Len(named) : named[i] # ""})

\* C6 (amended): InputGuard, IntentGuard, Retrieve, Generate, Repair (when
\* taken) and Compose append exactly one step each, in the order traversed;
\* Condense, ExtractTerms, AssemblePrompt and Validate append none.  The
\* trace of a run that did not raise has one step per traversed state of the
\* first kind, and steps are only ever appended.
C6_OneStepPerRecordedState ==
  /\ []((Done /\ raised = <<>>) => Modules(result.steps) = StepModules(visited))
  /\ [][\/ steps' = steps
        \/ (Len(steps') = Len(steps) + 1 /\ SubSeq(steps', 1, Len(steps)) = steps)]_vars

\* A composed run through all ten states returned six steps.
C6_Witness ==
  /\ Composed
  /\ Len(visited) = 10
  /\ Len(result.steps) = 6

GuardError(msg) ==
  /\ Done
  /\ result.status = "error"
  /\ result.error = <<msg>>
  /\ result.response = None
  /\ Modules(result.steps) = <<"InputGuard">>
  /\ calls = <<>>

\* C7: a prompt empty after trimming gives error "Empty prompt"; otherwise a
\* trimmed prompt longer than MAX_PROMPT_CHARS gives error "Prompt too long",
\* and one of exactly MAX_PROMPT_CHARS characters is accepted; in both error
\* cases the trace is the single InputGuard step and no collaborator is called.
C7_GuardsInOrder ==
  visited # <<>> =>
    LET n == Len(Strip(OrEmpty(user_prompt)))
    IN  /\ n = 0 => GuardError("Empty prompt")
        /\ n > MAX_PROMPT_CHARS => GuardError("Prompt too long")
        /\ (n > 0 /\ n <= MAX_PROMPT_CHARS) =>
             /\ result.status # "error" \/ raised # <<>>
             /\ Len(visited) = 1 => pc = "IntentGuard"
             /\ Done => Len(result.steps) >= 2

\* A padded prompt of exactly MAX_PROMPT_CHARS characters after trimming got
\* past the guard.
C7_Witness ==
  /\ Done
  /\ Len(user_prompt) > MAX_PROMPT_CHARS
  /\ Len(prompt) = MAX_PROMPT_CHARS
  /\ result.status = "ok"

\* One of the three literal markers occurs in the text.
HasMarker(p) ==
  \E i \in 1..Len(p) :
    MatchAt(p, i, S_RAG) \/ MatchAt(p, i, S_Category) \/ MatchAt(p, i, S_Task)

\* C8: a request past the input guard that contains 'RAG Category Filter:',
\* 'Category:' or 'Task:' is never answered with a clarification: IntentGuard
\* records from_wizard = true and should_clarify = false, _should_clarify is
\* not consulted, and the pipeline goes on to retrieval.
C8_WizardSkipsGate ==
  (Len(visited) >= 2 /\ HasMarker(prompt)) =>
    /\ steps[2].module = "IntentGuard"
    /\ steps[2].response.from_wizard = TRUE
    /\ steps[2].response.should_clarify = FALSE
    /\ ~consulted
    /\ result.response \notin {ClarifyProductTemplate, ClarifyGenericTemplate}
    /\ pc = "Retrieve" \/ Has(calls, "retrieve")

\* 'Task: x' would have been sent back as too short, and reached retrieval.
C8_Witness ==
  /\ user_prompt = P_task_short
  /\ _should_clarify(prompt) = <<TRUE, "too_short">>
  /\ Has(calls, "retrieve")
  /\ Composed

\* C9: when the gate decides to clarify, the result is status ok, error null,
\* the 'what product' template if and only if the reason is missing_product
\* and the generic template otherwise; the trace is InputGuard, IntentGuard
\* and no collaborator is called.
C9_ClarificationReply ==
  (Len(visited) >= 2 /\ steps[2].response.should_clarify) =>
    /\ Done
    /\ consulted
    /\ result.status = "ok"
    /\ result.error = None
    /\ ClarifyProductTemplate # ClarifyGenericTemplate
    /\ result.response \in {ClarifyProductTemplate, ClarifyGenericTemplate}
    /\ (result.response = ClarifyProductTemplate)
         <=> (steps[2].response.reason = "missing_product")
    /\ Modules(result.steps) = <<"InputGuard", "IntentGuard">>
    /\ calls = <<>>

\* A request with intent and no product got the 'what product' reply.
C9_Witness ==
  /\ Done
  /\ user_prompt = P_write_ad
  /\ steps[2].response.reason = "missing_product"
  /\ result.response = ClarifyProductTemplate

\* C10 as stated: a result with status ok never carries an empty or
\* whitespace-only response.
C10_NonEmptyResponse ==
  (Done /\ result.status = "ok") => Strip(result.response) # <<>>

(***************************************************************************)
(* Termination and sequencing of run_agent.                                *)
(***************************************************************************)
\* The three ways an invocation can end.
ErrorOutcome == result.status = "error" /\ result.response = None
ClarificationOutcome ==
  /\ result.status = "ok"
  /\ Modules(result.steps) = <<"InputGuard", "IntentGuard">>
  /\ result.response \in {ClarifyProductTemplate, ClarifyGenericTemplate}
ComposedOutcome ==
  /\ result.status = "ok"
  /\ result.steps # <<>>
  /\ ComposerStep.module = "FinalResponseComposer"

NoRepeat(seq) == \A i, j \in 1..Len(seq) : seq[i] = seq[j] => i = j

\* C11: given that every external call returns or raises, every invocation
\* of run_agent ends; it ends in exactly one of an error result, a
\* clarification reply or a composed result, the result once produced is
\* never replaced, every step moves control to another position, and no
\* pipeline state is visited twice.
C11_TerminatesOnce ==
  /\ <>Done
  /\ [](NoRepeat(visited))
  /\ [](Done => Cardinality({o \in {"error", "clarification", "composed"} :
                              \/ o = "error" /\ ErrorOutcome
                              \/ o = "clarification" /\ ClarificationOutcome
                              \/ o = "composed" /\ ComposedOutcome}) = 1)
  /\ [][result # NoResult => result' = result]_vars
  /\ [][pc' # pc]_vars

\* An invocation that went through the repair attempt and composed.
C11_Witness ==
  /\ Done
  /\ ComposedOutcome
  /\ visited = <<"InputGuard", "IntentGuard", "Retrieve", "Condense",
                 "ExtractTerms", "AssemblePrompt", "Generate", "Validate",
                 "Repair", "Compose">>

\* External calls that have come back: one step per return, one entry of
\* raised per raise.
ExternalModules == {"AmazonInspirationRetriever", "AdCopyWriter", "FormatRepair"}
CallsEnded ==
  Cardinality({i \in 1..Len(steps) : steps[i].module \in ExternalModules})
    + Len(raised)
InFlight == Len(calls) - CallsEnded

\* C12: the external calls of one invocation are strictly sequential: they
\* are made in the order retrieve, generate, repair, each at most once; the
\* retriever has returned before the generator is called and the draft
\* generation has returned before the repair call starts; a call is started
\* only when no other call is outstanding and no result has been produced.
C12_CallsSequential ==
  /\ [](/\ \E n \in 0..3 : calls = SubSeq(<<"retrieve", "generate", "repair">>, 1, n)
        /\ InFlight \in {0, 1}
        /\ (Has(calls, "generate") =>
              Has(Modules(steps), "AmazonInspirationRetriever"))
        /\ (Has(calls, "repair") => Has(Modules(steps), "AdCopyWriter")))
  /\ [][calls' # calls =>
          /\ InFlight = 0
          /\ result = NoResult
          /\ ~Done
          /\ Len(calls') = Len(calls) + 1]_vars

\* The repair call is outstanding, after the two calls before it came back.
C12_Witness ==
  /\ pc = "RepairWait"
  /\ calls = <<"retrieve", "generate", "repair">>
  /\ InFlight = 1
  /\ CallsEnded = 2

\* C13 as stated: retrieve_examples always returns, so no invocation ends in
\* status error with the retriever call as the one that failed.
C13_RetrievalNeverFails ==
  /\ (pc = "RetrieveWait" => \A o \in RetrieverOutcomes : o.kind = "return")
  /\ ~(Done /\ result.status = "error" /\ calls = <<"retrieve">>)

(***************************************************************************)
(* Properties of the pure functions (checked under FnSpec).                *)
(***************************************************************************)
Called(f) == fn = f /\ pc = "return"

\* The notions the clarification rules are stated in, for a trimmed,
\* lower-cased text.
HasIntent(t) == \E h \in _INTENT_HINTS : Contains(t, h)
HasProduct(t) ==
  (\E h \in _PRODUCT_HINTS : Contains(t, h)) \/ Contains(t, S_product_lc)
MeaningfulTokens(t) ==
  LET toks == Runs(t, AlnumLower)
  IN  Cardinality({k \in 1..Len(toks) : Len(toks[k]) >= 2})

\* The rules in order: whether each applies to the text, and its verdict.
ClarifyRules(t) ==
  << <<t = <<>>, <<TRUE, "empty">> >>,
     <<Len(t) < 12, <<TRUE, "too_short">> >>,
     <<HasIntent(t) /\ ~HasProduct(t), <<TRUE, "missing_product">> >>,
     <<MeaningfulTokens(t) < 3 /\ ~HasProduct(t), <<TRUE, "too_few_tokens">> >>,
     <<MeaningfulTokens(t) < 3 /\ HasProduct(t), <<FALSE, "">> >>,
     <<~HasIntent(t) /\ ~HasProduct(t), <<TRUE, "no_intent_or_product">> >>,
     <<TRUE, <<FALSE, "">> >> >>

FirstMatch(rules) == rules[Min({k \in 1..Len(rules) : rules[k][1]})][2]

\* C14: for free-form text _should_clarify returns the verdict of the first
\* rule that applies, in the order empty, too_short (fewer than 12 characters
\* after trimming), missing_product, too_few_tokens (proceed instead when a
\* product signal is present), no_intent_or_product, proceed; a text of at
\* most 3 characters or of whitespace only is answered with clarify and the
\* reason empty or too_short.
C14_ClarifyRuleOrder ==
  Called("_should_clarify") =>
    \A raw \in {OrEmpty(args[1])} : \A t \in {Lower(Strip(raw))} :
      /\ ret = FirstMatch(ClarifyRules(t))
      /\ (Len(raw) <= 3 \/ \A i \in 1..Len(raw) : raw[i] \in WS) =>
           ret[1] /\ ret[2] \in {"empty", "too_short"}

\* A request with an intent word, no product and two meaningful tokens: the
\* missing-product rule answers before the token rule is looked at.
C14_Witness ==
  /\ Called("_should_clarify")
  /\ ret = <<TRUE, "missing_product">>
  /\ \E t \in {Lower(Strip(OrEmpty(args[1])))} :
       MeaningfulTokens(t) < 3 /\ Len(t) >= 12

\* The mode the phrases of a lower-cased text ask for, given the keyword
\* phrases that count.
PhraseMode(t, keyword_phrases) ==
  IF (Contains(t, S_write_only) /\ Contains(t, S_headline))
       \/ Contains(t, S_headline_only)
    THEN _MODE_HEADLINE
  ELSE IF \E k \in keyword_phrases : Contains(t, k) THEN _MODE_KEYWORDS5
  ELSE _MODE_FULL

KeywordPhrases == {S_5_keywords, S_five_keywords, S_keywords_must}

\* What follows the first "task:" marker of a lower-cased text.
AfterMarker(t) ==
  Suffix(t, Min({i \in 1..Len(t) : MatchAt(t, i, S_task)}) + Len(S_task) - 1)

\* C15 as stated: when the lower-cased request holds the task: marker, the
\* mode is decided by the phrases that follow the marker alone.
C15_TaskPhraseOnly ==
  Called("_detect_mode") =>
    \A t \in {Lower(OrEmpty(args[1]))} :
      Contains(t, S_task) =>
        \A after \in {AfterMarker(t)} : ret = PhraseMode(after, KeywordPhrases)

\* C16 as stated: without the task: marker the same phrases, all three
\* keyword phrases included, decide the mode over the whole text.
C16_FreeFormSamePhrases ==
  Called("_detect_mode") =>
    \A t \in {Lower(OrEmpty(args[1]))} :
      ~Contains(t, S_task) => ret = PhraseMode(t, KeywordPhrases)

\* Well-formed full texts but for a bullet section of 4 lines.
FourBulletTexts ==
  {T_full_4_bullets, FullText(<<>>, <<" ">>, 4, <<" ">>, FALSE, <<>>)}

\* C17 as stated: in Keywords5 mode 'Keywords: a, bb, ccc, dddd, eeeee' is
\* accepted and 'Keywords: a, b' rejected; in Full mode a text with 4 bullet
\* lines is rejected.
C17_Original ==
  Called("_is_valid_format") =>
    /\ (args = <<K_spec_example, _MODE_KEYWORDS5>> => ret = TRUE)
    /\ (args = <<K_two_items, _MODE_KEYWORDS5>> => ret = FALSE)
    /\ (args[2] = _MODE_FULL /\ args[1] \in FourBulletTexts => ret = FALSE)

\* C17: in Keywords5 mode 'Keywords: a, bb, ccc, dddd, eeeee' is rejected
\* (its first item has one character) while 'Keywords: aa, bb, ccc, dddd,
\* eeeee' is accepted, and 'Keywords: a, b' is rejected; in Full mode an
\* otherwise well-formed text with 4 bullet lines is rejected.
C17_ValidatorExamples ==
  Called("_is_valid_format") =>
    /\ (args = <<K_spec_example, _MODE_KEYWORDS5>> => ret = FALSE)
    /\ (args = <<K_five_items, _MODE_KEYWORDS5>> => ret = TRUE)
    /\ (args = <<K_two_items, _MODE_KEYWORDS5>> => ret = FALSE)
    /\ (args[2] = _MODE_FULL /\ args[1] \in FourBulletTexts => ret = FALSE)

\* The validator has turned down the example with the one-character item.
C17_Witness ==
  /\ Called("_is_valid_format")
  /\ args = <<K_spec_example, _MODE_KEYWORDS5>>
  /\ ret = FALSE

NoNewline(t) == \A i \in 1..Len(t) : t[i] # "\n"

\* A single line 'Keywords:' (any case) whose remainder splits on commas into
\* exactly 5 items, each at least 2 characters long after trimming.
SingleKeywordLine(t) ==
  /\ NoNewline(t)
  /\ StartsWith(Lower(t), S_keywords_lc)
  /\ LET items == SplitChar(AfterColon(t), ",")
     IN  /\ Len(items) = 5
         /\ \A k \in 1..Len(items) : Len(Strip(items[k])) >= 2

\* C18 as stated: in Keywords5 mode the text is valid if and only if, once
\* trimmed, it is a single keyword line of exactly 5 items; a sixth, empty
\* item or a further line makes it invalid.
C18_KeywordsSingleLine ==
  (Called("_is_valid_format") /\ args[2] = _MODE_KEYWORDS5) =>
    \A t \in {Strip(OrEmpty(args[1]))} : ret = SingleKeywordLine(t)

\* A line that is the label, one whitespace character and some text.
LabelledLine(line, label) ==
  /\ StartsWith(line, label)
  /\ Len(line) >= Len(label) + 2
  /\ line[Len(label) + 1] \in WS

\* C19 as stated: in HeadlineOnly mode a valid text is, once trimmed, exactly
\* one line, the Headline label and 3 to 200 characters after it, with no
\* newline anywhere, directly after the label included; a text that is empty
\* or whitespace only is valid in no mode.
C19_HeadlineSingleLine ==
  Called("_is_valid_format") =>
    \A t \in {Strip(OrEmpty(args[1]))} :
      /\ (args[2] = _MODE_HEADLINE /\ ret) =>
           /\ NoNewline(t)
           /\ LabelledLine(t, S_Headline)
           /\ Len(t) - Len(S_Headline) - 1 \in 3..200
      /\ (t = <<>> => ~ret)

\* The ten lines of a full ad, one section to a line.
TenLineAd(t) ==
  LET lines == SplitChar(t, "\n")
  IN  /\ Len(lines) = 10
      /\ LabelledLine(lines[1], S_Headline)
      /\ lines[2] = S_Bullets
      /\ \A k \in 3..7 : LabelledLine(lines[k], <<"-">>)
      /\ LabelledLine(lines[8], S_Short)
      /\ LabelledLine(lines[9], S_Keywords)
      /\ LabelledLine(lines[10], S_Tips)

\* C20 as stated: in Full mode the text is valid if and only if, once
\* trimmed, it is exactly the ten lines Headline, Bullets, 5 bullets, Short
\* description, Keywords, Publishing tips, one section to a line.
C20_FullTenLines ==
  (Called("_is_valid_format") /\ args[2] = _MODE_FULL) =>
    \A t \in {Strip(OrEmpty(args[1]))} : ret = TenLineAd(t)

(***************************************************************************)
(* Properties of _condense_ctx.                                            *)
(***************************************************************************)
\* The score of a snippet against a request: the number of the request's
\* significant tokens the lower-cased snippet holds.
Score(request, snippet) ==
  LET toks == SignificantTokens(Lower(OrEmpty(request)))
  IN  Cardinality({toks[k] : k \in 1..Len(toks)
                     \cap {j \in 1..Len(toks) : Contains(Lower(snippet), toks[j])}})

\* The snippets of a condensed context: its lines without the "- " prefix.
Snippets(condensed_ctx) ==
  LET out == SplitLines(condensed_ctx)
  IN  [k \in 1..Len(out) |-> Suffix(out[k], 2)]

\* Where x occurs first in seq, 0 if nowhere.
FirstAt(seq, x) ==
  IF Has(seq, x) THEN Min({k \in 1..Len(seq) : seq[k] = x}) ELSE 0

\* C21: the snippets of the condensed context are candidate lines of the raw
\* block in non-increasing score order, and two of them with equal score are
\* in the order in which they (first) occur in the raw block.
C21_StableRanking ==
  Called("_condense_ctx") =>
    \A request \in {args[1]} :
      \A cand \in {CandidateLines(OrEmpty(args[2]))} :
        \A out \in {Snippets(ret)} :
          \A score \in {[k \in 1..Len(out) |-> Score(request, out[k])]} :
            cand # <<>> =>
              /\ \A a \in 1..Len(out) : FirstAt(cand, out[a]) > 0
              /\ \A a, b \in 1..Len(out) :
                   a < b =>
                     /\ score[a] >= score[b]
                     /\ score[a] = score[b] =>
                          FirstAt(cand, out[a]) < FirstAt(cand, out[b])

\* A block whose last snippet scores highest came out with that snippet first,
\* followed by two snippets of equal score.
C21_Witness ==
  /\ Called("_condense_ctx")
  /\ \A request \in {args[1]} :
       \A cand \in {CandidateLines(OrEmpty(args[2]))} :
         \A out \in {Snippets(ret)} :
           /\ Len(cand) = 3 /\ Len(out) = 3
           /\ out[1] = cand[3]
           /\ Score(request, out[1]) > Score(request, out[2])
           /\ Score(request, out[2]) = Score(request, out[3])
           /\ out[2] = cand[1] /\ out[3] = cand[2]

\* C22: no two snippets of the condensed context are equal after lower-casing
\* and trimming, and a snippet that came out is the first of the candidate
\* lines equal to it in that sense; '- Red Mug' and '- red mug' give the one
\* line '- Red Mug'.
C22_DedupKeepsFirst ==
  Called("_condense_ctx") =>
    \A cand \in {CandidateLines(OrEmpty(args[2]))} :
      \A out \in {Snippets(ret)} :
        /\ cand # <<>> =>
             /\ \A a, b \in 1..Len(out) :
                  a # b => Strip(Lower(out[a])) # Strip(Lower(out[b]))
             /\ \A a \in 1..Len(out) :
                  \A k \in 1..Len(cand) :
                    Strip(Lower(cand[k])) = Strip(Lower(out[a]))
                      => /\ FirstAt(cand, out[a]) > 0
                         /\ FirstAt(cand, out[a]) <= k
        /\ args[2] = C_Red_Mug \o <<"\n">> \o C_red_mug => ret = C_Red_Mug

\* The two lines of the example were condensed into one.
C22_Witness ==
  /\ Called("_condense_ctx")
  /\ args[2] = C_Red_Mug \o <<"\n">> \o C_red_mug
  /\ args[3] = DefaultMaxLines
  /\ ret = C_Red_Mug

\* C23 as stated: whatever the raw block, the condensed context has at most
\* max_lines lines.
C23_Original ==
  Called("_condense_ctx") => Len(SplitLines(ret)) <= args[3]

\* C23: for a raw block with a candidate line the condensed context has
\* between 1 and max_lines lines, each "- " and a snippet; for a raw block
\* without one it is the first 1200 characters of the block.
C23_AtMostMaxLines ==
  Called("_condense_ctx") =>
    \A c \in {OrEmpty(args[2])} :
      \A cand \in {CandidateLines(c)} :
        \A out \in {SplitLines(ret)} :
          /\ cand # <<>> =>
               /\ Len(out) \in 1..args[3]
               /\ \A k \in 1..Len(out) :
                    StartsWith(out[k], <<"-", " ">>) /\ Len(out[k]) > 2
          /\ cand = <<>> =>
               /\ Len(ret) <= 1200
               /\ ret = SubSeq(c, 1, Len(ret))
               /\ Len(ret) = 1200 \/ ret = c

\* A block of more candidates than max_lines, as run_agent passes it, came
\* out with max_lines lines.
C23_Witness ==
  /\ Called("_condense_ctx")
  /\ args[3] = DefaultMaxLines
  /\ Len(CandidateLines(OrEmpty(args[2]))) > DefaultMaxLines
  /\ Len(SplitLines(ret)) = DefaultMaxLines

(***************************************************************************)
(* Properties of _rewrite_query.                                           *)
(***************************************************************************)
\* The tokens of a query: what its single spaces separate.
QueryTokens(q) == IF q = <<>> THEN <<>> ELSE SplitChar(q, " ")

\* A token as a query may hold it: lower-case alphanumeric, 3 characters or
\* more, no stopword.
IsQueryToken(t) ==
  /\ Len(t) >= 3
  /\ \A i \in 1..Len(t) : t[i] \in AlnumLower
  /\ t \notin _STOPWORDS

\* The alphanumeric runs of a lower-cased text, as a set.
TokensOf(text) ==
  LET runs == Runs(Lower(text), AlnumLower)
  IN  {runs[k] : k \in 1..Len(runs)}

\* The non-empty values of the lines of a request that start with key, and
\* the value of the last such line (empty if there is none).
KeyedValues(request, key) ==
  LET lines == SplitLines(request)
  IN  {Strip(AfterColon(lines[k])) :
         k \in {j \in 1..Len(lines) : StartsWith(lines[j], key)}} \ {<<>>}
LastValue(request, key) ==
  LET lines == SplitLines(request)
      at    == {j \in 1..Len(lines) : StartsWith(lines[j], key)}
  IN  IF at = {} THEN <<>> ELSE Strip(AfterColon(lines[Max(at)]))

\* What holds of every query: the request itself if it has no token a query
\* may hold, else 1 to 12 such tokens.
BoundedQuery(request, query) ==
  IF \A t \in TokensOf(request) : ~IsQueryToken(t)
    THEN query = request
    ELSE \A toks \in {QueryTokens(query)} :
           /\ Len(toks) \in 1..12
           /\ \A k \in 1..Len(toks) : IsQueryToken(toks[k])

\* C24 as stated: when a Category: line and a Product: line have non-empty
\* values, every token of the query is a token of one of those values; and
\* every query is the raw request or at most 12 tokens a query may hold.
C24_Original ==
  Called("_rewrite_query") =>
    \A request \in {OrEmpty(args[1])} :
      /\ (KeyedValues(request, S_Category) # {}
            /\ KeyedValues(request, S_Product) # {})
           => \A toks \in {QueryTokens(ret)} :
                \A k \in 1..Len(toks) :
                  \E v \in KeyedValues(request, S_Category)
                             \cup KeyedValues(request, S_Product) :
                    toks[k] \in TokensOf(v)
      /\ BoundedQuery(request, ret)

\* C24: when the last Category: line and the last Product: line have
\* non-empty values, the query is the word "category" followed by tokens of
\* those two values; and every query is the raw request or at most 12 tokens
\* a query may hold.
C24_CategoryBiasedQuery ==
  Called("_rewrite_query") =>
    \A request \in {OrEmpty(args[1])} :
      /\ (LastValue(request, S_Category) # <<>>
            /\ LastValue(request, S_Product) # <<>>)
           => \A toks \in {QueryTokens(ret)} :
                /\ toks # <<>>
                /\ toks[1] = Strip(S_category_sp)
                /\ \A k \in 2..Len(toks) :
                     toks[k] \in TokensOf(LastValue(request, S_Category))
                                  \cup TokensOf(LastValue(request, S_Product))
      /\ BoundedQuery(request, ret)

\* A request with a Category:, a Product: and a Task: line gave a query of
\* "category" and the five tokens of the two values.
C24_Witness ==
  /\ Called("_rewrite_query")
  /\ LastValue(args[1], S_Category) # <<>>
  /\ LastValue(args[1], S_Product) # <<>>
  /\ Contains(args[1], Q_Task)
  /\ Len(QueryTokens(ret)) = 6

(***************************************************************************)
(* Properties of _extract_allowed_terms.                                   *)
(***************************************************************************)
\* C25: the terms returned are at most max_terms, lower-case, no stopwords,
\* pairwise different, each found at least twice among the words of the
\* lower-cased context, the more frequent first and equally frequent ones in
\* the order in which they are first seen; no context gives no term.
C25_FrequentTermsOnly ==
  Called("_extract_allowed_terms") =>
    \A words \in {TermTokens(Lower(OrEmpty(args[1])))} :
      \A terms \in {ret} :
        /\ Len(terms) <= args[2]
        /\ OrEmpty(args[1]) = <<>> => terms = <<>>
        /\ \A k \in 1..Len(terms) :
             /\ Count(words, terms[k]) >= 2
             /\ terms[k] \notin _STOPWORDS
             /\ terms[k] = Lower(terms[k])
        /\ \A a, b \in 1..Len(terms) :
             a < b =>
               /\ terms[a] # terms[b]
               /\ Count(words, terms[a]) >= Count(words, terms[b])
               /\ Count(words, terms[a]) = Count(words, terms[b]) =>
                    FirstAt(words, terms[a]) < FirstAt(words, terms[b])

\* A context in which the term seen second is the more frequent, next to a
\* stopword-free term seen twice, gave both, the more frequent first.
C25_Witness ==
  /\ Called("_extract_allowed_terms")
  /\ args[2] = DefaultMaxTerms
  /\ \A words \in {TermTokens(Lower(OrEmpty(args[1])))} :
       /\ Len(ret) = 2
       /\ Count(words, ret[1]) > Count(words, ret[2])
       /\ FirstAt(words, ret[1]) > FirstAt(words, ret[2])

(***************************************************************************)
(* Properties of process_message.                                          *)
(***************************************************************************)
\* process_message has returned.
Replied == pc = "reply"

\* The state the call started from (the empty state if the caller had none),
\* and the trimmed input.
Entered == IF state_in.step = "" THEN _empty_state ELSE state_in
Text == Strip(OrEmpty(user_input))

\* The input is a back command: trimmed and lower-cased it is one of the
\* spellings.
BackInput == Lower(Text) \in BACK_COMMANDS

\* The sub ids of a category of the tree.
SubIdsOf(cat_id) ==
  UNION {Elements(Ids(c.subcategories)) :
           c \in {e \in Elements(CATEGORY_TREE) : e.id = cat_id}}

\* The wizard asks again: the state is the one passed in, nothing is ready.
Reprompt == next_state = state_in /\ payload.ready = FALSE

\* C26: a non-back input advances as the transition table says (Greeting to
\* Menu; Menu with an action id to CollectCategory; CollectCategory with a
\* category id to CollectSubcategory if the category has more than one
\* sub-option, else to CollectProduct with no subcategory; CollectSubcategory
\* with a sub id of the category to CollectProduct; CollectProduct with 5 or
\* more characters to CollectConstraints), and any other input in these
\* states is answered by a re-prompt with the state unchanged.
C26_TransitionTable ==
  (Replied /\ ~BackInput) =>
    \A s \in {Entered} : \A t \in {Text} : \A n \in {next_state} :
      /\ s.step = "GREETING" => n = [s EXCEPT !.step = "MENU"]
      /\ s.step = "MENU" =>
            IF t \in {A_full_ad, A_headline_only, A_keywords_5}
              THEN n = [s EXCEPT !.step = "COLLECT_CATEGORY", !.action = t]
              ELSE Reprompt
      /\ s.step = "COLLECT_CATEGORY" =>
            IF \E c \in Elements(CATEGORY_TREE) : c.id = t
              THEN IF Cardinality(SubIdsOf(t)) > 1
                     THEN n = [s EXCEPT !.step = "COLLECT_SUBCATEGORY",
                                        !.category = t]
                     ELSE n = [s EXCEPT !.step = "COLLECT_PRODUCT",
                                        !.category = t, !.subcategory = None]
              ELSE Reprompt
      /\ s.step = "COLLECT_SUBCATEGORY" =>
            IF t \in SubIdsOf(s.category)
              THEN n = [s EXCEPT !.step = "COLLECT_PRODUCT", !.subcategory = t]
              ELSE Reprompt
      /\ s.step = "COLLECT_PRODUCT" =>
            IF Len(t) >= 5
              THEN n = [s EXCEPT !.step = "COLLECT_CONSTRAINTS", !.product = t]
              ELSE Reprompt

\* A sub id of another category was sent in CollectSubcategory and the wizard
\* asked again.
C26_Witness ==
  /\ Replied
  /\ state_in.step = "COLLECT_SUBCATEGORY"
  /\ state_in.category = ID_electronics
  /\ user_input = ID_beauty
  /\ next_state = state_in

\* C27 as stated: in CollectConstraints a non-back input leads to Generate
\* with the trimmed text as constraints, except that the text 'skip' gives
\* empty constraints and a request string with the line 'Constraints: None'.
C27_Original ==
  (Replied /\ ~BackInput /\ state_in.step = "COLLECT_CONSTRAINTS") =>
    /\ next_state.step = "GENERATE"
    /\ next_state.constraints = (IF Text = S_skip THEN <<>> ELSE Text)
    /\ Text = S_skip =>
         Has(SplitLines(payload.agent_prompt),
             S_Constraints \o <<" ", "N", "o", "n", "e">>)

\* C27: in CollectConstraints a non-back input leads to Generate with the
\* trimmed text as constraints, except that 'skip' in any casing gives empty
\* constraints; empty constraints give a request string with the line
\* 'Constraints: None'.
C27_SkipClearsConstraints ==
  (Replied /\ ~BackInput /\ state_in.step = "COLLECT_CONSTRAINTS") =>
    /\ next_state.step = "GENERATE"
    /\ next_state = [state_in EXCEPT
                       !.step = "GENERATE",
                       !.constraints = IF Lower(Text) = S_skip THEN <<>> ELSE Text]
    /\ payload.ready
    /\ next_state.constraints = <<>> =>
         Has(SplitLines(payload.agent_prompt),
             S_Constraints \o <<" ", "N", "o", "n", "e">>)

\* 'SKIP' with padding was sent in CollectConstraints and cleared them.
C27_Witness ==
  /\ Replied
  /\ state_in.step = "COLLECT_CONSTRAINTS"
  /\ user_input = I_SKIP
  /\ next_state.step = "GENERATE"
  /\ next_state.constraints = <<>>

\* C28 as stated: from Generate any input leads to Menu with every field
\* null and nothing ready.
C28_Original ==
  (Replied /\ state_in.step = "GENERATE") =>
    /\ next_state = ConversationState("MENU", None, None, None, None, None)
    /\ payload.ready = FALSE

\* C28: from Generate any input that is no back command leads to Menu with
\* every field null and nothing ready.
C28_RestartAfterGenerate ==
  (Replied /\ ~BackInput /\ state_in.step = "GENERATE") =>
    /\ next_state = ConversationState("MENU", None, None, None, None, None)
    /\ payload.ready = FALSE

\* A finished run with a subcategory and constraints was followed by an input
\* and the wizard is back at Menu.
C28_Witness ==
  /\ Replied /\ ~BackInput
  /\ state_in.step = "GENERATE"
  /\ state_in.subcategory = ID_computers
  /\ state_in.constraints = I_no_emojis
  /\ next_state.step = "MENU"

\* C29: a back command leads to the predecessor of the step and keeps what
\* was collected before it: CollectSubcategory to CollectCategory without
\* subcategory; CollectProduct to CollectSubcategory if the category has
\* sub-options, else to CollectCategory, without product and constraints;
\* CollectConstraints to CollectProduct without constraints; Generate to
\* CollectConstraints; Greeting, Menu and CollectCategory to the empty Menu.
C29_BackToPredecessor ==
  (Replied /\ BackInput) =>
    \A s \in {Entered} : \A n \in {next_state} :
      /\ s.step = "COLLECT_SUBCATEGORY" =>
            n = [s EXCEPT !.step = "COLLECT_CATEGORY", !.subcategory = None]
      /\ s.step = "COLLECT_PRODUCT" =>
            /\ n.step = (IF SubIdsOf(s.category) # {}
                           THEN "COLLECT_SUBCATEGORY" ELSE "COLLECT_CATEGORY")
            /\ SubIdsOf(s.category) # {} => n.category = s.category
            /\ n.product = None /\ n.constraints = None
            /\ n.action = s.action
      /\ s.step = "COLLECT_CONSTRAINTS" =>
            n = [s EXCEPT !.step = "COLLECT_PRODUCT", !.constraints = None]
      /\ s.step = "GENERATE" => n = [s EXCEPT !.step = "COLLECT_CONSTRAINTS"]
      /\ s.step \in {"GREETING", "MENU", "COLLECT_CATEGORY"} =>
            n = ConversationState("MENU", None, None, None, None, None)

\* Back was sent in CollectConstraints, where constraints of an earlier run
\* were still held: they were cleared and the product was kept.
C29_Witness ==
  /\ Replied /\ BackInput
  /\ state_in.step = "COLLECT_CONSTRAINTS"
  /\ state_in.constraints = I_no_emojis
  /\ next_state.step = "COLLECT_PRODUCT"
  /\ next_state.product = I_product
  /\ next_state.constraints = None

\* The place of a step in the flow.
Rank(step) ==
  CASE step = "GREETING"            -> 0
    [] step = "MENU"                -> 1
    [] step = "COLLECT_CATEGORY"    -> 2
    [] step = "COLLECT_SUBCATEGORY" -> 3
    [] step = "COLLECT_PRODUCT"     -> 4
    [] step = "COLLECT_CONSTRAINTS" -> 5
    [] step = "GENERATE"            -> 6

\* No field of the new state took the input: each is what it was or null.
NothingStored ==
  /\ next_state.action \in {Entered.action, None}
  /\ next_state.category \in {Entered.category, None}
  /\ next_state.subcategory \in {Entered.subcategory, None}
  /\ next_state.product \in {Entered.product, None}
  /\ next_state.constraints \in {Entered.constraints, None}

\* C30 as stated: in every state a back command stores nothing, does not
\* move the wizard to a later step, and makes nothing ready.
C30_Original ==
  (Replied /\ BackInput) =>
    /\ NothingStored
    /\ Rank(next_state.step) <= Rank(Entered.step)
    /\ payload.ready = FALSE

\* C30: in every state a back command stores nothing and makes nothing
\* ready; it moves the wizard to an earlier step, or to Menu (from Greeting
\* and from Menu).
C30_BackBeforeStepLogic ==
  (Replied /\ BackInput) =>
    /\ NothingStored
    /\ \/ Rank(next_state.step) < Rank(Entered.step)
       \/ Entered.step \in {"GREETING", "MENU"} /\ next_state.step = "MENU"
    /\ payload.ready = FALSE /\ payload.agent_prompt = None

\* 'Go Back' with padding, which is long enough for a product, was sent in
\* CollectProduct and led back.
C30_Witness ==
  /\ Replied
  /\ state_in.step = "COLLECT_PRODUCT"
  /\ user_input = I_Go_Back
  /\ Rank(next_state.step) < Rank(state_in.step)

(***************************************************************************)
(* The trace and the result of run_agent.                                  *)
(***************************************************************************)
\* The modules in the order run_agent records them, with and without the
\* repair attempt.
PipelineOrder ==
  <<"InputGuard", "IntentGuard", "AmazonInspirationRetriever", "AdCopyWriter",
    "FormatRepair", "FinalResponseComposer">>
PipelineOrderUnrepaired ==
  <<"InputGuard", "IntentGuard", "AmazonInspirationRetriever", "AdCopyWriter",
    "FinalResponseComposer">>

IsPrefix(s, t) == Len(s) <= Len(t) /\ \A i \in 1..Len(s) : s[i] = t[i]

\* The returned result is the clarification reply: the intent guard, the
\* last step of the trace, asked to clarify.
Clarification ==
  /\ Len(result.steps) = 2
  /\ result.steps[2].module = "IntentGuard"
  /\ result.steps[2].response.should_clarify

\* C36: the module names of the trace, while it is built and when it is
\* returned, are a prefix of InputGuard, IntentGuard,
\* AmazonInspirationRetriever, AdCopyWriter, FormatRepair (optional),
\* FinalResponseComposer: InputGuard is first, no module appears twice,
\* FormatRepair appears only directly between AdCopyWriter and
\* FinalResponseComposer, and FinalResponseComposer is in the returned trace
\* if and only if the result has status ok and is not a clarification.
C36_TraceIsPrefix ==
  \A names \in {Modules(steps)} :
    /\ IsPrefix(names, PipelineOrder) \/ IsPrefix(names, PipelineOrderUnrepaired)
    /\ NoRepeat(names)
    /\ \A i \in 1..Len(names) :
         names[i] = "FormatRepair" =>
           /\ i > 1 /\ names[i - 1] = "AdCopyWriter"
           /\ i < Len(names) => names[i + 1] = "FinalResponseComposer"
    /\ Done =>
         /\ result.steps = steps
         /\ names # <<>> /\ names[1] = "InputGuard"
         /\ Has(names, "FinalResponseComposer")
              <=> (result.status = "ok" /\ ~Clarification)

\* An invocation whose repair attempt was recorded and that composed: all
\* six modules are in the trace.
C36_Witness ==
  /\ Done
  /\ Modules(result.steps) = PipelineOrder
  /\ result.status = "ok"

\* C37: a returned result has status ok, no error and a string as response,
\* or status error, a non-empty error string and no response; the
\* format_valid flag of the FinalResponseComposer step is _is_valid_format of
\* the returned response and the detected mode.
C37_ResultShapes ==
  Done =>
    /\ \/ /\ result.status = "ok"
          /\ result.error = None
          /\ result.response # None
       \/ /\ result.status = "error"
          /\ result.error # None /\ result.error # <<>>
          /\ result.response = None
    /\ \A i \in 1..Len(result.steps) :
         result.steps[i].module = "FinalResponseComposer" =>
           result.steps[i].response.format_valid
             = _is_valid_format(result.response, mode)

\* A composed result whose repair output replaced an invalid draft: the flag
\* is true although the draft is not valid.
C37_Witness ==
  /\ Done
  /\ ComposedOutcome
  /\ ComposerStep.response.format_valid
  /\ ~_is_valid_format(Draft, mode)

(***************************************************************************)
(* The clarification gate and the product signal (checked under FnSpec).   *)
(***************************************************************************)
\* C38: for a text of at least 12 characters after trimming, _should_clarify
\* lets the request through if and only if the text has a product signal (a
\* product-hint word or the marker 'product:' as a substring): with an intent
\* word alone it asks to clarify, and with a product signal it proceeds
\* whatever the number of tokens and whether or not an intent word occurs.
C38_ProceedIffProduct ==
  Called("_should_clarify") =>
    \A t \in {Lower(Strip(OrEmpty(args[1])))} :
      Len(t) >= MIN_PROMPT_CHARS_FOR_AGENT =>
        /\ ret[1] = ~HasProduct(t)
        /\ ~ret[1] => ret[2] = ""

\* A request of three or more tokens with an intent word and no product
\* signal: it is asked to clarify.
C38_Witness ==
  /\ Called("_should_clarify")
  /\ ret[1]
  /\ \E t \in {Lower(Strip(OrEmpty(args[1])))} :
       /\ Len(t) >= MIN_PROMPT_CHARS_FOR_AGENT
       /\ HasIntent(t) /\ ~HasProduct(t)
       /\ MeaningfulTokens(t) >= MIN_TOKENS_FOR_AGENT

(***************************************************************************)
(* The states a conversation can be in.                                    *)
(***************************************************************************)
\* What each step implies about the fields of a state.
Consistent(s) ==
  /\ s.step = "MENU" =>
       /\ s.action = None /\ s.category = None /\ s.subcategory = None
       /\ s.product = None /\ s.constraints = None
  /\ s.step \in {"COLLECT_CATEGORY", "COLLECT_SUBCATEGORY", "COLLECT_PRODUCT",
                 "COLLECT_CONSTRAINTS", "GENERATE"} =>
       s.action \in Elements(MENU_ACTIONS)
  /\ s.step = "COLLECT_CATEGORY" =>
       s.subcategory = None /\ s.product = None /\ s.constraints = None
  /\ s.step = "COLLECT_SUBCATEGORY" =>
       /\ s.category \in _all_top_ids
       /\ Cardinality(SubIdsOf(s.category)) > 1
  /\ s.step \in {"COLLECT_PRODUCT", "COLLECT_CONSTRAINTS", "GENERATE"} =>
       /\ s.category \in _all_top_ids
       /\ (s.subcategory # None) <=> (SubIdsOf(s.category) # {})
       /\ s.subcategory # None => s.subcategory \in SubIdsOf(s.category)
  /\ s.step \in {"COLLECT_CONSTRAINTS", "GENERATE"} =>
       s.product # None /\ Len(s.product) >= 5

\* C35: in every state a conversation reaches from no state or the Greeting
\* state, by any inputs (back commands and invalid inputs included): Menu
\* has no data; every later step has one of the 3 actions; CollectCategory
\* has no subcategory, product or constraints; CollectSubcategory has a
\* category of the tree with more than one sub-option; CollectProduct,
\* CollectConstraints and Generate have a category of the tree, and a
\* subcategory exactly when the category has sub-options, then one of its
\* sub ids; CollectConstraints and Generate have a product of 5 or more
\* characters.
C35_StateInvariant ==
  /\ Consistent(next_state)
  /\ Consistent(state_in)
  /\ next_state.step \in {"", "GREETING", "MENU", "COLLECT_CATEGORY",
                          "COLLECT_SUBCATEGORY", "COLLECT_PRODUCT",
                          "COLLECT_CONSTRAINTS", "GENERATE"}

\* Back from CollectProduct, where a product entered earlier was still
\* stored, to CollectCategory: the product is gone.
C35_Witness ==
  /\ Replied /\ BackInput
  /\ state_in.step = "COLLECT_PRODUCT" /\ state_in.product # None
  /\ next_state.step = "COLLECT_CATEGORY"

(***************************************************************************)
(* The length of a guided conversation (checked under GuidedSpec).         *)
(***************************************************************************)
\* The calls a guided conversation needs from Greeting, or from a result, to
\* the next result: 6 when the category chosen has sub-options, else 5.
CallsToGenerate(state) == IF _has_subcategories(state.category) THEN 6 ELSE 5

\* C40: a caller who sends a valid input that is no back command on every
\* turn from the initial state gets ready = true in Generate on the 6th call
\* of process_message when the chosen category has sub-options and on the
\* 5th otherwise, and on no other call; from every state a conversation can
\* reach, such a caller always has an input to send and gets to Generate
\* within 6 calls; and after Generate the next input leads to Menu, from
\* where Generate is reached again in the same number of calls.
C40_GuidedReachesGenerate ==
  /\ guided /\ pc = "chat" => ValidInputs(next_state) # {}
  /\ guided => turns <= 6
  /\ (guided /\ Replied) =>
       /\ turns = 6 => payload.ready
       /\ payload.ready <=> next_state.step = "GENERATE"
       /\ state_in.step = "GENERATE" =>
            next_state = [_empty_state EXCEPT !.step = "MENU"]
       /\ origin \in {"", "GREETING", "GENERATE"} =>
            (payload.ready <=>
               /\ next_state.category # None
               /\ turns = CallsToGenerate(next_state))

\* From the initial state: ready on the 6th call, with a subcategory chosen.
C40_Witness ==
  /\ guided /\ Replied /\ payload.ready
  /\ origin \in {"", "GREETING"}
  /\ turns = 6 /\ next_state.subcategory # None

(***************************************************************************)
(* The request string built on reaching Generate, and what the handler and *)
(* the pipeline make of it (checked under ChatSpec).                       *)
(***************************************************************************)
\* The reply says the request is ready.
Ready == Replied /\ payload.ready

\* The lines of the request string.
PromptLines == SplitChar(payload.agent_prompt, "\n")

\* The entry of the tree for a category id, and the sub entry for a sub id.
TopEntry(cat_id) == CHOOSE c \in Elements(CATEGORY_TREE) : c.id = cat_id
SubEntry(cat_id, sub_id) ==
  CHOOSE e \in Elements(TopEntry(cat_id).subcategories) : e.id = sub_id

\* The label of a category as the tree writes it after the pictogram and
\* the two spaces; with a subcategory, followed by ' > ' and its label.
LabelText(cat_id, sub_id) ==
  LET top == TopEntry(cat_id).label
      own == SubSeq(top, 4, Len(top))
  IN  IF sub_id = None THEN own
      ELSE own \o <<" ", ">", " ">> \o SubEntry(cat_id, sub_id).label

\* The retrieval id: the subcategory's when one was chosen, else the
\* category's.
RetrievalId(cat_id, sub_id) ==
  IF sub_id = None THEN TopEntry(cat_id).pinecone_id
  ELSE SubEntry(cat_id, sub_id).pinecone_id

\* The instruction that goes with each action of the menu.
InstructionOf ==
  [a \in Elements(MENU_ACTIONS) |->
     IF a = A_full_ad THEN T_full_ad
     ELSE IF a = A_headline_only THEN T_headline_only
     ELSE T_keywords_5]

\* C33: the request string built on reaching Generate has the lines
\* 'Product: <product>', 'Category: <label>', 'RAG Category Filter: <retrieval
\* id>', 'Constraints: <constraints, or None>', 'Platform: E-commerce' and
\* 'Task: <instruction of the action chosen in Menu>', in this order and no
\* others; for the product 'red ceramic mug, 350ml' and the action full_ad it
\* has the line 'Product: red ceramic mug, 350ml' and a line that starts with
\* 'Task: Write a full high-converting ad'.
C33_RequestLines ==
  Ready =>
    \A n \in {next_state} : \A lines \in {PromptLines} :
      /\ lines = << S_Product \o <<" ">> \o n.product,
                    S_Category \o <<" ">> \o LabelText(n.category, n.subcategory),
                    S_RAG \o <<" ">> \o RetrievalId(n.category, n.subcategory),
                    S_Constraints \o <<" ">>
                      \o (IF n.constraints = <<>> THEN <<"N", "o", "n", "e">>
                          ELSE n.constraints),
                    S_Platform,
                    S_Task \o <<" ">> \o InstructionOf[n.action] >>
      /\ (n.product = I_product /\ n.action = A_full_ad) =>
           /\ Has(lines, S_Product \o <<" ">> \o I_product)
           /\ \E i \in 1..Len(lines) :
                StartsWith(lines[i], S_Task \o <<" ">>
                                       \o SubSeq(T_default, 1, Len(T_default) - 1))

\* The handler has called run_agent on this turn.
Invoked == user_prompt # None

\* C32: process_message returns ready = true, and with it a request string,
\* if and only if the transition it made enters Generate, which happens from
\* CollectConstraints only; on every other transition ready is false and
\* there is no request string.  The handler calls run_agent only with a
\* payload that is ready, so no step of the pipeline is taken on a turn that
\* has not reached Generate.
C32_ReadyOnlyInGenerate ==
  /\ pc = "chat" => ~Invoked
  /\ pc # "chat" =>
       /\ payload.ready <=> payload.agent_prompt # None
       /\ payload.ready <=> next_state.step = "GENERATE"
       /\ next_state.step = "GENERATE" => Entered.step = "COLLECT_CONSTRAINTS"
       /\ Invoked => payload.ready
       /\ (steps # <<>> \/ result # NoResult \/ calls # <<>>) => payload.ready

\* A turn that reached Generate and whose pipeline composed a result.
C32_Witness ==
  /\ Replied /\ payload.ready
  /\ Has(visited, "Compose") /\ result.status = "ok"

\* C39: on every turn on which the handler runs the pipeline, the
\* category_filter given to run_agent, and by run_agent to the retriever, is
\* the retrieval id of what was selected in the wizard (the subcategory's
\* when one was chosen, else the category's), whatever was typed as product
\* or constraints.
C39_FilterIsSelection ==
  Invoked =>
    \A id \in {RetrievalId(next_state.category, next_state.subcategory)} :
      /\ category_filter = id
      /\ \A i \in 1..Len(steps) :
           steps[i].module = "AmazonInspirationRetriever" =>
             steps[i].prompt.category_filter = id

\* The mode that goes with each action of the menu.
ModeOf ==
  [a \in Elements(MENU_ACTIONS) |->
     IF a = A_full_ad THEN _MODE_FULL
     ELSE IF a = A_headline_only THEN _MODE_HEADLINE
     ELSE _MODE_KEYWORDS5]

\* C34: for every conversation that reaches Generate, run_agent takes the
\* request string for a structured one (the clarification gate is not
\* consulted and nothing is asked), and the mode it detects is the one of the
\* action chosen in Menu, whatever was typed as product or constraints.
C34_ModeFollowsAction ==
  (Invoked /\ Has(visited, "IntentGuard")) =>
    /\ steps[2].response.from_wizard
    /\ ~steps[2].response.should_clarify
    /\ ~consulted
    /\ mode = ModeOf[next_state.action]

(***************************************************************************)
(* process_message as a function of its arguments (checked under           *)
(* ReplaySpec).                                                            *)
(***************************************************************************)
\* The call that has just returned has the arguments of the noted call.
Replayed ==
  /\ Replied /\ noted # NoCall
  /\ user_input = noted.input /\ state_in = noted.state

====
